---- MODULE Spec2Model ----
(***************************************************************************)
(* A model of the golog slog handler (src/golog.go, second package body,   *)
(* lines 364-848) and of its pooled buffer (src/internal/buffer).          *)
(*                                                                         *)
(* Bytes are modelled as sequences of one-character strings; a few         *)
(* multi-character atoms stand for one byte that TLA+ cannot spell         *)
(* ("^A" is 0x01, "DEL" is 0x7f) or for an opaque run of bytes (the        *)
(* formatted time, an error description).                                  *)
(***************************************************************************)
EXTENDS Integers, Sequences, FiniteSets, Bags, TLC

VARIABLES
    handlers,   \* every *Handler allocated so far, by address 1..Len(handlers)
    heap,       \* backing arrays of the slices the handlers hold, by address
    made,       \* history: the call that allocated each handler
    mu,         \* the sync.Mutex objects, by address: 0 = unlocked, else the holder
    writes,     \* the calls made to out.Write, in call order
    sink,       \* the bytes the sink holds
    stack,      \* per goroutine: the Handle calls in progress, innermost last
    last,       \* the last call the sequential caller made and what it returned
    fv,         \* argument of the formatValue call under test
    fres,       \* result of that call
    bp,         \* the buffer pool, and the buffers handed out to direct callers
    rv          \* the formatValue call followed one recursive call at a time

vars == <<handlers, heap, made, mu, writes, sink, stack, last, fv, fres, bp, rv>>

(***************************************************************************)
(* Bounds of the model.                                                    *)
(***************************************************************************)
MaxHandlers == 3    \* handlers allocated in the sequential specification
MaxWrites == 1      \* Write calls made on the sink in the sequential specification
ConcHandlers == 2   \* handlers allocated in the concurrent specification
ConcWrites == 2     \* Write calls made on the sink in the concurrent specification
NumProcs == 2       \* goroutines calling Handle concurrently
MaxNest == 2        \* length of a chain of value-providers
MaxKeyLen == 2      \* length of the keys and group names rendered on their own
LineHandlers == 3   \* handlers of a tree whose lines are examined field by field
LineWrites == 1     \* Handle calls that reach the sink in such a tree
LevelSpan == 8      \* how far below DEBUG and above ERROR the levels formatted on their own go
MaxDepth == 5       \* nested formatValue calls counted; deeper ones are followed but not counted
MaxBuffers == 2     \* buffers alive at once when the buffer package is called directly
MaxBufLen == 24577  \* bytes a direct caller writes to one buffer (an over-sized write after a small one)
MaxSegLen == 2      \* length of the keys and group names of two attributes rendered side by side
AliasWrites == 2    \* Handle calls that reach the sink under a callback that writes to its groups argument

(***************************************************************************)
(* slog levels (log/slog: LevelDebug = -4, LevelInfo = 0, ...).            *)
(***************************************************************************)
LevelDebug == 0 - 4
LevelInfo == 0
LevelWarn == 4
LevelError == 8

Levels == {LevelDebug, LevelInfo, LevelWarn, LevelError}

(***************************************************************************)
(* Text helpers.                                                           *)
(***************************************************************************)
NullText == <<"n", "u", "l", "l">>
TrueText == <<"t", "r", "u", "e">>
FalseText == <<"f", "a", "l", "s", "e">>

Digit(n) == <<"0", "1", "2", "3", "4", "5", "6", "7", "8", "9">>[n + 1]

RECURSIVE AppendInt(_)
\* strconv.AppendInt(buf, n, 10): the decimal digits, '-' first when negative
AppendInt(n) ==
    IF n < 0 THEN <<"-">> \o AppendInt(0 - n)
    ELSE IF n < 10 THEN <<Digit(n)>>
    ELSE AppendInt(n \div 10) \o <<Digit(n % 10)>>

RECURSIVE Flatten(_)
\* the concatenation of a sequence of byte sequences
Flatten(ss) == IF ss = <<>> THEN <<>> ELSE Head(ss) \o Flatten(Tail(ss))

\* strconv.Quote on one byte, with the backslash left as it is
QuoteCharRawBackslash(c) ==
    CASE c = "\"" -> <<"\\", "\"">>
      [] c = "\n" -> <<"\\", "n">>
      [] c = "^A" -> <<"\\", "x", "0", "1">>
      [] c = "DEL" -> <<"\\", "x", "7", "f">>
      [] OTHER -> <<c>>

\* strconv.Quote on one byte: the Go escape of a quote, a backslash or a control
\* byte, the byte itself when printable
QuoteChar(c) ==
    CASE c = "\"" -> <<"\\", "\"">>
      [] c = "\\" -> <<"\\", "\\">>
      [] c = "\n" -> <<"\\", "n">>
      [] c = "^A" -> <<"\\", "x", "0", "1">>
      [] c = "DEL" -> <<"\\", "x", "7", "f">>
      [] OTHER -> <<c>>

\* strconv.Quote(s)
Quote(s) == <<"\"">> \o Flatten([i \in 1..Len(s) |-> QuoteChar(s[i])]) \o <<"\"">>

\* encoding/json on one byte of a string: HTML-safe \u escapes, DEL left raw
JSONChar(c) ==
    CASE c = "\"" -> <<"\\", "\"">>
      [] c = "\\" -> <<"\\", "\\">>
      [] c = "\n" -> <<"\\", "n">>
      [] c = "^A" -> <<"\\", "u", "0", "0", "0", "1">>
      [] c = "<" -> <<"\\", "u", "0", "0", "3", "c">>
      [] OTHER -> <<c>>

\* json.Marshal of a Go string
JSONQuote(s) == <<"\"">> \o Flatten([i \in 1..Len(s) |-> JSONChar(s[i])]) \o <<"\"">>

(***************************************************************************)
(* Go values handed to formatValue, as a tagged union over dynamic types.  *)
(*   nil      the untyped nil interface                                    *)
(*   string, int, bool                                                     *)
(*   named    a named type: whether it has LogValue (value receiver) and   *)
(*            what that returns, whether it has FormatForLog and what that *)
(*            returns, and what json.Marshal makes of it                   *)
(*   ptr      a pointer: nil or not, and its pointee (for a nil pointer    *)
(*            the pointee only carries the static type)                    *)
(***************************************************************************)
NilV == [t |-> "nil"]
StrV(s) == [t |-> "string", s |-> s]
IntV(n) == [t |-> "int", n |-> n]
BoolV(b) == [t |-> "bool", b |-> b]
NamedV(valuer, lv, formatter, fm, js) ==
    [t |-> "named", valuer |-> valuer, lv |-> lv,
     formatter |-> formatter, fm |-> fm, js |-> js]
PtrV(isnil, elem) == [t |-> "ptr", isnil |-> isnil, elem |-> elem]

\* a (text, error) pair as FormatForLog and json.Marshal return it
TextOk(s) == [s |-> s, err |-> ""]
TextErr(e) == [s |-> <<>>, err |-> e]

\* the method set of *T holds the value-receiver methods of T
IsLogValuer(v) ==
    \/ v.t = "named" /\ v.valuer
    \/ v.t = "ptr" /\ v.elem.t = "named" /\ v.elem.valuer

IsLogFormatter(v) ==
    \/ v.t = "named" /\ v.formatter
    \/ v.t = "ptr" /\ v.elem.t = "named" /\ v.elem.formatter

\* a value-receiver method called through a nil pointer panics
IsNilPtr(v) == v.t = "ptr" /\ v.isnil

Receiver(v) == IF v.t = "ptr" THEN v.elem ELSE v

\* the outcome of a formatValue call: the bytes appended to the buffer, the error
\* returned ("" for nil, "panic" when the call did not return), and the methods
\* of values it invoked, in order
FvOk(out) == [out |-> out, err |-> "", calls |-> <<>>]
FvErr(e) == [out |-> <<>>, err |-> e, calls |-> <<>>]
\* no call made yet
NotCalled == [out |-> <<>>, err |-> "not called", calls |-> <<>>]
FvCalled(method, v, r) == [r EXCEPT !.calls = <<<<method, v>>>> \o @]

RECURSIVE jsonMarshal(_)
\* json.Marshal(v): a pointer is followed, nil pointers give null
jsonMarshal(v) ==
    CASE v.t = "nil" -> TextOk(NullText)
      [] v.t = "string" -> TextOk(JSONQuote(v.s))
      [] v.t = "int" -> TextOk(AppendInt(v.n))
      [] v.t = "bool" -> TextOk(IF v.b THEN TrueText ELSE FalseText)
      [] v.t = "named" -> v.js
      [] v.t = "ptr" -> IF v.isnil THEN TextOk(NullText) ELSE jsonMarshal(v.elem)


\* the custom-formatter case of formatValue's type switch (lines 754-760)
formatByFormatter(v) ==
    IF IsNilPtr(v) THEN FvCalled("FormatForLog", v, FvErr("panic"))
    ELSE LET f == Receiver(v).fm IN
         FvCalled("FormatForLog", v, IF f.err # "" THEN FvErr(f.err) ELSE FvOk(f.s))

\* the tail of formatValue (lines 763-774): nil pointer, then json.Marshal
formatByFallback(v) ==
    IF IsNilPtr(v) THEN FvOk(NullText)
    ELSE LET j == jsonMarshal(v) IN
         FvCalled("Marshal", v, IF j.err # "" THEN FvErr(j.err) ELSE FvOk(j.s))

RECURSIVE formatValueFormatterFirst(_)
\* formatValue with the LogFormatter case tried before the LogValuer check
formatValueFormatterFirst(v) ==
    IF v.t = "nil" THEN FvOk(NullText)
    ELSE IF IsLogFormatter(v) THEN formatByFormatter(v)
    ELSE IF IsLogValuer(v) THEN
        IF IsNilPtr(v) THEN FvCalled("LogValue", v, FvErr("panic"))
        ELSE FvCalled("LogValue", v, formatValueFormatterFirst(Receiver(v).lv))
    ELSE IF v.t = "string" THEN FvOk(Quote(v.s))
    ELSE IF v.t = "int" THEN FvOk(AppendInt(v.n))
    ELSE IF v.t = "bool" THEN FvOk(IF v.b THEN TrueText ELSE FalseText)
    ELSE formatByFallback(v)

RECURSIVE formatValue(_)
\* formatValue(buf, v): what it appends to buf and what it returns
formatValue(v) ==
    IF v.t = "nil" THEN FvOk(NullText)
    ELSE IF IsLogValuer(v) THEN
        IF IsNilPtr(v) THEN FvCalled("LogValue", v, FvErr("panic"))
        ELSE FvCalled("LogValue", v, formatValue(Receiver(v).lv))
    ELSE IF v.t = "string" THEN FvOk(Quote(v.s))
    ELSE IF v.t = "int" THEN FvOk(AppendInt(v.n))
    ELSE IF v.t = "bool" THEN FvOk(IF v.b THEN TrueText ELSE FalseText)
    ELSE IF IsLogFormatter(v) THEN formatByFormatter(v)
    ELSE formatByFallback(v)

(***************************************************************************)
(* The values formatValue is exercised on.                                 *)
(***************************************************************************)
TestStrings ==
    {<<>>, <<"a">>, <<"a", "<">>, <<"\"">>, <<"^A", "b">>, <<"\\", "n">>,
     <<"a", "\n", "\"">>, <<"DEL", "\\">>}

PlainStruct == NamedV(FALSE, NilV, FALSE, TextOk(<<>>), TextOk(<<"{", "}">>))
BadStruct == NamedV(FALSE, NilV, FALSE, TextOk(<<>>), TextErr("json: unsupported type"))
CustomType == NamedV(FALSE, NilV, TRUE, TextOk(<<"c", "u", "s", "t", "o", "m">>),
                     TextOk(<<"{", "}">>))
ErrorFormatter == NamedV(FALSE, NilV, TRUE, TextErr("format error"), TextOk(<<"{", "}">>))

\* values without a value-provider and without a pointer
PlainValues ==
    {NilV, IntV(0), IntV(42), IntV(0 - 7), BoolV(TRUE), BoolV(FALSE),
     PlainStruct, BadStruct, CustomType, ErrorFormatter}
    \cup {StrV(s) : s \in TestStrings}

\* a value-provider yielding lv: without FormatForLog (UserID) and with it
\* (DualFormatter)
Providers(lvs) ==
    {NamedV(TRUE, lv, FALSE, TextOk(<<>>), TextOk(<<"{", "}">>)) : lv \in lvs}
    \cup {NamedV(TRUE, lv, TRUE, TextOk(<<"f", "m", "t">>), TextOk(<<"{", "}">>)) : lv \in lvs}

RECURSIVE ProviderChains(_)
\* value-providers whose chain of LogValue results is at most n long
ProviderChains(n) ==
    IF n = 0 THEN {}
    ELSE LET shorter == ProviderChains(n - 1) IN
         shorter \cup Providers(PlainValues \cup shorter)

NonPointers == PlainValues \cup ProviderChains(MaxNest)

Pointers ==
    LET one == {PtrV(n, e) : n \in BOOLEAN, e \in NonPointers \ {NilV}}
    IN one \cup {PtrV(n, e) : n \in BOOLEAN, e \in {p \in one : p.elem \in PlainValues}}

\* a Go error as errors.New returns it: a non-nil pointer to a struct whose only
\* field, the message, is unexported, so that json.Marshal makes {} of it; it
\* has an Error method and neither LogValue nor FormatForLog
ErrorValue(msg) ==
    PtrV(FALSE, [t |-> "named", valuer |-> FALSE, lv |-> NilV, formatter |-> FALSE,
                 fm |-> TextOk(<<>>), js |-> TextOk(<<"{", "}">>), error |-> msg])

IsError(v) == v.t = "ptr" /\ "error" \in DOMAIN v.elem

ErrorValues == {ErrorValue(<<"t", "i", "m", "e", "o", "u", "t">>), ErrorValue(<<>>)}

Values == NonPointers \cup Pointers \cup ErrorValues


(***************************************************************************)
(* Keys, attributes, rewrite callbacks.                                    *)
(***************************************************************************)
TimeKey == <<"t", "i", "m", "e">>
LevelKey == <<"l", "e", "v", "e", "l">>
MessageKey == <<"m", "s", "g">>
SourceKey == <<"s", "o", "u", "r", "c", "e">>

Attr(key, val) == [key |-> key, val |-> val]

\* the attribute a rewrite callback returns to drop a field: slog.Attr{}
EmptyAttr == Attr(<<>>, NilV)

\* needsQuoting that looks for the space alone
needsQuotingSpaceOnly(s) == \E i \in 1..Len(s) : s[i] = " "

\* needsQuoting(s): empty, or holding a byte <= ' ', '=', '"' or DEL
needsQuoting(s) ==
    \/ s = <<>>
    \/ \E i \in 1..Len(s) : s[i] \in {" ", "\n", "^A", "=", "\"", "DEL"}

\* a key or group name written as it is, never quoted
renderKeyVerbatim(s) == s

\* how Handle and appendAttr write a key or a group name
renderKey(s) == IF needsQuoting(s) THEN Quote(s) ELSE s

\* the marker appendAttr and Handle write for a value that failed to resolve
ErrorMarker(e) == <<"\"", "!", "E", "R", "R", "O", "R", ":", e, "\"">>

\* The rewrite callbacks installed through Options.ReplaceAttr:
\*   "nil"    none installed
\*   "redact" drops every attribute whose key is "s" (returns slog.Attr{}) and
\*            returns every other attribute as it got it
SecretKey == <<"s">>

ReplaceAttrs == {"nil", "redact"}

\* Further callbacks, installed in the handlers whose lines are examined field
\* by field:
\*   "dropTime", "dropLevel", "dropMsg", "dropSource"
\*                 return slog.Attr{} for the field of that key, every other
\*                 attribute as they got it
\*   "rename"      returns every attribute with "2" appended to its key
\*   "revalue"     returns another time for the time field, another level for
\*                 the level field, another string for message and source, and
\*                 the integer 7 for every other attribute
\*   "fail"        returns the message with a value whose FormatForLog fails
\*   "failSource"  returns the source with a value whose FormatForLog fails
\*   "scope"       returns every attribute with its value replaced by the
\*                 concatenation of the groups it was called with
\*   "dropInGroup" returns slog.Attr{} whenever it is called with a non-empty
\*                 groups argument
\*   "same"        returns every attribute as it got it
\*   "raise"       returns the level field with the level ERROR, every other
\*                 attribute as it got it
\*   "lower"       returns the level field with the level DEBUG, every other
\*                 attribute as it got it
DroppedKey(cb) ==
    CASE cb = "redact" -> SecretKey
      [] cb = "dropTime" -> TimeKey
      [] cb = "dropLevel" -> LevelKey
      [] cb = "dropMsg" -> MessageKey
      [] cb = "dropSource" -> SourceKey

Droppers == {"redact", "dropTime", "dropLevel", "dropMsg", "dropSource"}

LineReplaceAttrs ==
    ReplaceAttrs \cup Droppers
    \cup {"rename", "revalue", "fail", "failSource", "scope", "dropInGroup"}

\* One callback also writes to the slice it is handed:
\*   "clobber"     stores "x" in groups[0] when there is one, and returns every
\*                 attribute as it got it
\* replaceAttr(groups, a) for an installed callback: the attribute it returns
CallReplaceAttr(cb, groups, a) ==
    CASE cb \in Droppers -> IF a.key = DroppedKey(cb) THEN EmptyAttr ELSE a
      [] cb = "rename" -> Attr(a.key \o <<"2">>, a.val)
      [] cb = "revalue" ->
            Attr(a.key,
                 CASE a.key = TimeKey -> [t |-> "time", at |-> "T2"]
                   [] a.key = LevelKey -> [t |-> "level", n |-> LevelError]
                   [] a.key = MessageKey -> StrV(<<"b", "y", "e">>)
                   [] a.key = SourceKey -> StrV(<<"g", ":", "2">>)
                   [] OTHER -> IntV(7))
      [] cb = "fail" ->
            IF a.key = MessageKey
            THEN Attr(a.key, NamedV(FALSE, NilV, TRUE, TextErr("format error"),
                                    TextOk(<<"{", "}">>)))
            ELSE a
      [] cb = "failSource" ->
            IF a.key = SourceKey
            THEN Attr(a.key, NamedV(FALSE, NilV, TRUE, TextErr("format error"),
                                    TextOk(<<"{", "}">>)))
            ELSE a
      [] cb = "scope" -> Attr(a.key, StrV(Flatten(groups)))
      [] cb = "dropInGroup" -> IF groups # <<>> THEN EmptyAttr ELSE a
      [] cb = "same" -> a
      [] cb = "raise" ->
            IF a.key = LevelKey THEN Attr(a.key, [t |-> "level", n |-> LevelError])
            ELSE a
      [] cb = "lower" ->
            IF a.key = LevelKey THEN Attr(a.key, [t |-> "level", n |-> LevelDebug])
            ELSE a
      [] OTHER -> a

\* replaceAttr(groups, a) for an installed callback: what the backing array of
\* groups holds when it returns.  The callback is handed the caller's slice, not
\* a copy of it (lines 613, 641, 801).
GroupsAfterCall(cb, groups, a) ==
    IF cb = "clobber" /\ groups # <<>> THEN [groups EXCEPT ![1] = <<"x">>]
    ELSE groups

RECURSIVE GroupsAfterAttrs(_, _, _)
\* the same after appendAttr was called for each attribute of a list in turn
GroupsAfterAttrs(attrs, groups, cb) ==
    IF attrs = <<>> \/ cb = "nil" THEN groups
    ELSE GroupsAfterAttrs(Tail(attrs), GroupsAfterCall(cb, groups, Head(attrs)), cb)

\* a group prefix made of the innermost group alone
groupPrefixInnermost(groups) ==
    IF groups = <<>> THEN <<>> ELSE renderKey(groups[Len(groups)]) \o <<".">>

\* the group prefix appendAttr writes: every group rendered, each followed by '.'
groupPrefix(groups) ==
    Flatten([i \in 1..Len(groups) |-> renderKey(groups[i]) \o <<".">>])

\* appendAttr that writes nothing after '=' for a value that fails to resolve
appendAttrNoMarker(key, value, groups, replaceAttr) ==
    LET attr == IF replaceAttr # "nil"
                THEN CallReplaceAttr(replaceAttr, groups, Attr(key, value))
                ELSE Attr(key, value)
    IN  IF replaceAttr # "nil" /\ attr.key = <<>> THEN <<>>
        ELSE <<" ">> \o groupPrefix(groups) \o renderKey(attr.key) \o <<"=">>
             \o formatValue(attr.val).out

\* appendAttr that writes an attribute whatever key the callback returns
appendAttrNoDrop(key, value, groups, replaceAttr) ==
    LET attr == IF replaceAttr # "nil"
                THEN CallReplaceAttr(replaceAttr, groups, Attr(key, value))
                ELSE Attr(key, value)
        r == formatValue(attr.val)
    IN  <<" ">> \o groupPrefix(groups) \o renderKey(attr.key) \o <<"=">>
        \o r.out \o (IF r.err # "" THEN ErrorMarker(r.err) ELSE <<>>)

\* appendAttr that calls the callback with nil groups
appendAttrNilGroups(key, value, groups, replaceAttr) ==
    LET attr == IF replaceAttr # "nil"
                THEN CallReplaceAttr(replaceAttr, <<>>, Attr(key, value))
                ELSE Attr(key, value)
        r == formatValue(attr.val)
    IN  IF replaceAttr # "nil" /\ attr.key = <<>> THEN <<>>
        ELSE <<" ">> \o groupPrefix(groups) \o renderKey(attr.key) \o <<"=">>
             \o r.out \o (IF r.err # "" THEN ErrorMarker(r.err) ELSE <<>>)

\* appendAttr that leaves out an attribute with the empty key whether or not a
\* callback is installed
appendAttrSkipsEmptyKey(key, value, groups, replaceAttr) ==
    LET attr == IF replaceAttr # "nil"
                THEN CallReplaceAttr(replaceAttr, groups, Attr(key, value))
                ELSE Attr(key, value)
        r == formatValue(attr.val)
    IN  IF attr.key = <<>> THEN <<>>
        ELSE <<" ">> \o groupPrefix(groups) \o renderKey(attr.key) \o <<"=">>
             \o r.out \o (IF r.err # "" THEN ErrorMarker(r.err) ELSE <<>>)

\* appendAttr(buf, key, value, groups, replaceAttr): the bytes it appends to buf.
\* The group prefix is written after the callback has returned (649-658), from
\* the slice the callback was handed.
appendAttr(key, value, groups, replaceAttr) ==
    LET attr == IF replaceAttr # "nil"
                THEN CallReplaceAttr(replaceAttr, groups, Attr(key, value))
                ELSE Attr(key, value)
        after == IF replaceAttr # "nil"
                 THEN GroupsAfterCall(replaceAttr, groups, Attr(key, value))
                 ELSE groups
        r == formatValue(attr.val)
    IN  IF replaceAttr # "nil" /\ attr.key = <<>> THEN <<>>
        ELSE <<" ">> \o groupPrefix(after) \o renderKey(attr.key) \o <<"=">>
             \o r.out \o (IF r.err # "" THEN ErrorMarker(r.err) ELSE <<>>)

\* appendAttr over a list of attributes, last one first
appendAttrsReversed(attrs, groups, replaceAttr) ==
    Flatten([i \in 1..Len(attrs) |->
                appendAttr(attrs[Len(attrs) + 1 - i].key,
                           attrs[Len(attrs) + 1 - i].val, groups, replaceAttr)])

RECURSIVE appendAttrs(_, _, _)
\* appendAttr over a list of attributes, in order, each call on the slice as the
\* calls before it left it
appendAttrs(attrs, groups, replaceAttr) ==
    IF attrs = <<>> THEN <<>>
    ELSE appendAttr(Head(attrs).key, Head(attrs).val, groups, replaceAttr)
         \o appendAttrs(Tail(attrs),
                        GroupsAfterAttrs(<<Head(attrs)>>, groups, replaceAttr),
                        replaceAttr)

\* A call made in the course of a Handle or WithAttrs call: buffer.New, the
\* rewrite callback (with the groups and the attribute handed to it),
\* formatValue, Lock, Write, Unlock, Free.
Event(op) == [op |-> op, groups |-> <<>>, a |-> EmptyAttr]
CallbackEvent(groups, a) == [op |-> "replaceAttr", groups |-> groups, a |-> a]

\* the calls appendAttr makes: the callback when one is installed (640-641),
\* formatValue unless the callback returned an empty key (642-644, 666)
appendAttrTrace(key, value, groups, replaceAttr) ==
    IF replaceAttr = "nil" THEN <<Event("formatValue")>>
    ELSE <<CallbackEvent(groups, Attr(key, value))>>
         \o (IF CallReplaceAttr(replaceAttr, groups, Attr(key, value)).key = <<>>
             THEN <<>> ELSE <<Event("formatValue")>>)

appendAttrsTrace(attrs, groups, replaceAttr) ==
    Flatten([i \in 1..Len(attrs) |->
                appendAttrTrace(attrs[i].key, attrs[i].val, groups, replaceAttr)])

(***************************************************************************)
(* Levels.                                                                 *)
(***************************************************************************)
\* slog.Level.String(): the name of the nearest standard level at or below,
\* followed by the signed offset when there is one
LevelString(l) ==
    LET base == IF l < LevelInfo THEN LevelDebug
                ELSE IF l < LevelWarn THEN LevelInfo
                ELSE IF l < LevelError THEN LevelWarn ELSE LevelError
        name == CASE base = LevelDebug -> <<"D", "E", "B", "U", "G">>
                  [] base = LevelInfo -> <<"I", "N", "F", "O">>
                  [] base = LevelWarn -> <<"W", "A", "R", "N">>
                  [] OTHER -> <<"E", "R", "R", "O", "R">>
        d == l - base
    IN  IF d = 0 THEN name
        ELSE IF d > 0 THEN name \o <<"+">> \o AppendInt(d)
        ELSE name \o AppendInt(d)

\* formatLevel(level)
formatLevel(level) ==
    CASE level = LevelDebug -> <<"D", "E", "B", "U", "G">>
      [] level = LevelInfo -> <<" ", "I", "N", "F", "O">>
      [] level = LevelWarn -> <<" ", "W", "A", "R", "N">>
      [] level = LevelError -> <<"E", "R", "R", "O", "R">>
      [] OTHER -> LET s == LevelString(level) IN
                  IF Len(s) < 5 THEN [i \in 1..(5 - Len(s)) |-> " "] \o s ELSE s

\* (h *Handler).formatLevelWithColor(level); a colour code is one atom
formatLevelWithColor(h, level) ==
    LET colorCode == CASE level = LevelDebug -> "ESC[36m"
                       [] level = LevelInfo -> "ESC[32m"
                       [] level = LevelWarn -> "ESC[33m"
                       [] level = LevelError -> "ESC[31m"
                       [] OTHER -> "ESC[37m"
    IN  IF ~h.useColors THEN formatLevel(level)
        ELSE <<colorCode>> \o formatLevel(level) \o <<"ESC[0m">>


(***************************************************************************)
(* Handlers.  A Handler struct holds two slices, groups and                *)
(* preformattedAttrs; each is modelled as the address of its backing array *)
(* in heap (0 is the nil slice), so that two handlers sharing an array is  *)
(* something the model can express.                                        *)
(***************************************************************************)
Deref(hp, a) == IF a = 0 THEN <<>> ELSE hp[a]

\* h.groups and h.preformattedAttrs of the handler at address i
GroupsOf(i) == Deref(heap, handlers[i].groups)
PreOf(i) == Deref(heap, handlers[i].pre)

defaultTimeFormat == "2006-01-02 15:04:05.000"

\* makeTimeFormatter(format): which encoder is selected
makeTimeFormatter(format) ==
    CASE format = defaultTimeFormat -> "formatTimeDefault"
      [] format = "RFC3339" -> "formatTimeRFC3339"
      [] format = "RFC3339Nano" -> "formatTimeRFC3339Nano"
      [] OTHER -> "AppendFormat"

\* The Options NewHandler is called with in this model.
OptionSets ==
    {[Level |-> LevelInfo, UseColors |-> FALSE, TimeFormat |-> "",
      AddSource |-> FALSE, ReplaceAttr |-> "nil"],
     [Level |-> LevelWarn, UseColors |-> TRUE, TimeFormat |-> "RFC3339",
      AddSource |-> TRUE, ReplaceAttr |-> "redact"]}

\* The Options of the handlers whose lines are examined field by field: every
\* callback, with source capture.
LineOptionSets ==
    {[Level |-> LevelInfo, UseColors |-> FALSE, TimeFormat |-> "",
      AddSource |-> TRUE, ReplaceAttr |-> cb] : cb \in LineReplaceAttrs}

\* NewHandler(w, opts): the Handler it returns, given where its empty groups
\* slice and its new mutex live
NewHandler(w, opts, groupsAddr, muAddr) ==
    LET timeFormat == IF opts.TimeFormat # "" THEN opts.TimeFormat
                      ELSE defaultTimeFormat
    IN  [out |-> w,
         minLevel |-> opts.Level,
         timeFormat |-> timeFormat,
         timeFormatter |-> makeTimeFormatter(timeFormat),
         groups |-> groupsAddr,
         useColors |-> opts.UseColors,
         addSource |-> opts.AddSource,
         replaceAttr |-> opts.ReplaceAttr,
         mu |-> muAddr,
         pre |-> 0]

\* Enabled with the comparison off by one
EnabledStrict(h, level) == level > h.minLevel

\* (h *Handler).Enabled(ctx, level)
Enabled(h, level) == level >= h.minLevel

(***************************************************************************)
(* Records.                                                                *)
(***************************************************************************)
TimeV(at) == [t |-> "time", at |-> at]
LevelV(l) == [t |-> "level", n |-> l]

\* h.timeFormatter(buf, t): the formatted time is one opaque atom
FormatTime(h, at) == <<at>>

\* The line Handle builds in its buffer for record r (lines 540-617), given the
\* handler struct h and the contents of its two slices.
RenderLine(h, groups, pre, r) ==
    LET cb == h.replaceAttr
        rewrite(a) == IF cb # "nil" THEN CallReplaceAttr(cb, <<>>, a) ELSE a
        timeAttr == rewrite(Attr(TimeKey, TimeV(r.time)))
        timePart ==
            IF timeAttr.key = <<>> THEN <<>>
            ELSE <<"[">>
                 \o FormatTime(h, IF timeAttr.val.t = "time" THEN timeAttr.val.at
                                  ELSE r.time)
                 \o <<"]", " ">>
        levelAttr == rewrite(Attr(LevelKey, LevelV(r.level)))
        levelPart ==
            IF levelAttr.key = <<>> THEN <<>>
            ELSE <<"[">>
                 \o formatLevelWithColor(h, IF levelAttr.val.t = "level"
                                            THEN levelAttr.val.n ELSE r.level)
                 \o <<"]", " ">>
        msgAttr == rewrite(Attr(MessageKey, StrV(r.msg)))
        msgRes == formatValue(msgAttr.val)
        msgPart ==
            IF msgAttr.key = <<>> THEN <<>>
            ELSE <<"m", "s", "g", "=">> \o msgRes.out
                 \o (IF msgRes.err # "" THEN ErrorMarker(msgRes.err) ELSE <<>>)
        sourceAttr == rewrite(Attr(SourceKey, StrV(r.src)))
        sourcePart ==
            IF ~h.addSource \/ r.src = <<>> \/ sourceAttr.key = <<>> THEN <<>>
            ELSE <<" ">> \o renderKey(sourceAttr.key) \o <<"=">>
                 \o formatValue(sourceAttr.val).out
    IN  timePart \o levelPart \o msgPart \o pre \o sourcePart
        \o appendAttrs(r.attrs, groups, cb) \o <<"\n">>

\* The calls Handle makes for a record that passes the filter, in the order of
\* lines 537-622: buffer.New; the callback for time, level and message, and
\* formatValue for the message; the callback and formatValue for the source;
\* appendAttr for each attribute of the record; Lock, Write, Unlock; and the
\* deferred Free.
HandleTrace(h, groups, r) ==
    LET cb == h.replaceAttr
        called(a) == IF cb # "nil" THEN <<CallbackEvent(<<>>, a)>> ELSE <<>>
        kept(a) == cb = "nil" \/ CallReplaceAttr(cb, <<>>, a).key # <<>>
        msgAttr == Attr(MessageKey, StrV(r.msg))
        sourceAttr == Attr(SourceKey, StrV(r.src))
    IN  <<Event("New")>>
        \o called(Attr(TimeKey, TimeV(r.time)))
        \o called(Attr(LevelKey, LevelV(r.level)))
        \o called(msgAttr)
        \o (IF kept(msgAttr) THEN <<Event("formatValue")>> ELSE <<>>)
        \o (IF ~h.addSource \/ r.src = <<>> THEN <<>>
            ELSE called(sourceAttr)
                 \o (IF kept(sourceAttr) THEN <<Event("formatValue")>> ELSE <<>>))
        \o appendAttrsTrace(r.attrs, groups, cb)
        \o <<Event("Lock"), Event("Write"), Event("Unlock"), Event("Free")>>

\* a slog.Record: time, level, message, source position, attributes
Rec(level, attrs) ==
    [time |-> "T", level |-> level, msg |-> <<"h", "i">>,
     src |-> <<"f", ":", "1">>, attrs |-> attrs]

\* A value-provider whose LogValue method itself logs NestedRecord through the
\* root handler before it returns its value.
Relogger ==
    [t |-> "named", valuer |-> TRUE, lv |-> StrV(<<"u">>), formatter |-> FALSE,
     fm |-> TextOk(<<>>), js |-> TextOk(<<"{", "}">>), logs |-> TRUE]

Relogs(v) == "logs" \in DOMAIN v

HasRelog(r) == \E i \in 1..Len(r.attrs) : Relogs(r.attrs[i].val)

NestedRecord == Rec(LevelError, <<Attr(<<"n">>, IntV(0))>>)

\* the records logged, the attribute lists bound and the groups entered
Records ==
    {Rec(LevelDebug, <<>>), Rec(LevelInfo, <<>>),
     Rec(LevelWarn, <<Attr(<<"j">>, IntV(1))>>),
     Rec(LevelError, <<Attr(SecretKey, StrV(<<"p">>)), Attr(<<"j">>, BoolV(TRUE))>>)}

ConcRecords ==
    {Rec(LevelInfo, <<>>), Rec(LevelWarn, <<Attr(<<"j">>, IntV(1))>>),
     Rec(LevelError, <<Attr(<<"u">>, Relogger)>>)}

BoundAttrs ==
    {<<>>, <<Attr(<<"k">>, StrV(<<"v">>)), Attr(SecretKey, StrV(<<"p">>))>>}

GroupNames == {<<>>, <<"a">>, <<"b", " ">>}

\* the records and bound lists of the lines examined field by field: a value
\* that fails to resolve ahead of one that resolves, and a key used twice
LineRecords ==
    {Rec(LevelInfo, <<Attr(<<"e">>, ErrorFormatter), Attr(<<"j">>, IntV(1))>>),
     Rec(LevelError, <<Attr(<<"k">>, IntV(1)), Attr(SecretKey, StrV(<<"p">>)),
                       Attr(<<"k">>, IntV(2))>>)}

LineBoundAttrs ==
    {<<Attr(<<"k">>, StrV(<<"v">>)), Attr(SecretKey, StrV(<<"p">>))>>,
     <<Attr(<<"e">>, BadStruct), Attr(<<"k">>, BoolV(TRUE))>>}

LineGroupNames == {<<"a">>, <<"b", " ">>}

\* The handlers whose bound attributes are compared with a record's: no source
\* capture, callbacks that leave the group list alone.
BindReplaceAttrs == {"nil", "same", "rename", "redact", "scope", "raise", "lower"}

BindOptionSets ==
    {[Level |-> LevelInfo, UseColors |-> FALSE, TimeFormat |-> "",
      AddSource |-> FALSE, ReplaceAttr |-> cb] : cb \in BindReplaceAttrs}

\* a value whose FormatForLog returns a string holding a newline
NewlineFormatter ==
    NamedV(FALSE, NilV, TRUE, TextOk(<<"x", "\n", "y">>), TextOk(<<"{", "}">>))

\* their records and bound lists: a record below the minimum level, attributes
\* with the empty key, a custom formatter
BindRecords ==
    {Rec(LevelDebug, <<Attr(<<"j">>, IntV(1))>>),
     Rec(LevelInfo, <<Attr(<<>>, IntV(1)), Attr(SecretKey, StrV(<<"p">>))>>),
     Rec(LevelError, <<Attr(<<"n">>, NewlineFormatter), Attr(<<"k">>, IntV(2))>>)}

BindBoundAttrs ==
    {<<Attr(<<"k">>, StrV(<<"v">>)), Attr(<<>>, IntV(2))>>,
     <<Attr(SecretKey, StrV(<<"p">>))>>}

BindGroupNames == {<<"a">>}

(***************************************************************************)
(* The pooled buffer (src/internal/buffer/buffer.go).  A Buffer is a byte  *)
(* slice; what the pool looks at is its length and its capacity.  Every    *)
(* buffer has one owner at a time (the pool, or the caller between New and *)
(* Free), so buffers are told apart by value and the pool is a bag.        *)
(***************************************************************************)
maxBufferSize == 16384

newBufferCap == 1024

Buffer(len, cap) == [len |-> len, cap |-> cap]

\* bufPool.New (lines 18-21): make([]byte, 0, 1024)
bufPoolNew == Buffer(0, newBufferCap)

\* the capacities append may leave a slice of capacity cap with once it holds
\* need bytes: the old one when it is large enough, else at least the need; how
\* much more is the runtime's choice, here the exact need or twice the old one
appendCaps(cap, need) ==
    IF need <= cap THEN {cap}
    ELSE {need, IF 2 * cap > need THEN 2 * cap ELSE need}

\* (b *Buffer).Write(p) with len(p) = n, and WriteString, WriteByte (lines
\* 45-60): the buffers that may result
Write(b, n) == {Buffer(b.len + n, c) : c \in appendCaps(b.cap, b.len + n)}

\* New() (lines 25-27): bufPool.Get() hands out any pooled buffer, or a new one;
\* each outcome is the buffer returned and the pool left behind
New(pool) ==
    {[b |-> x, pool |-> pool (-) SetToBag({x})] : x \in BagToSet(pool)}
    \cup {[b |-> bufPoolNew, pool |-> pool]}

\* New() as the handler's calls see it: a pooled buffer when there is one
NewReusing(pool) ==
    IF pool = EmptyBag THEN [b |-> bufPoolNew, pool |-> pool]
    ELSE LET x == CHOOSE y \in BagToSet(pool) : TRUE
         IN  [b |-> x, pool |-> pool (-) SetToBag({x})]

\* Free that puts every buffer back, whatever its capacity
FreeAnyCapacity(pool, b) == pool (+) SetToBag({Buffer(0, b.cap)})

\* (b *Buffer).Free() (lines 31-37): the pool afterwards
Free(pool, b) ==
    IF b.cap <= maxBufferSize THEN pool (+) SetToBag({Buffer(0, b.cap)})
    ELSE pool

\* the pool before any call; out are the buffers direct callers hold, op and b
\* the last call a direct caller made and the buffer it was about
EmptyPool == [pool |-> EmptyBag, out |-> EmptyBag, op |-> "none", b |-> bufPoolNew]

\* the sizes of the writes direct callers make
WriteSizes == {8192, 16385}

\* a caller calls buffer.New()
CallerNew ==
    /\ \E c \in New(bp.pool) :
          /\ BagCardinality(c.pool) + BagCardinality(bp.out) < MaxBuffers
          /\ bp' = [pool |-> c.pool, out |-> bp.out (+) SetToBag({c.b}),
                    op |-> "New", b |-> c.b]
    /\ UNCHANGED <<handlers, heap, made, mu, writes, sink, stack, last, fv, fres, rv>>

\* a caller writes n bytes to a buffer it got from New and has not freed
CallerWrite(n) ==
    /\ \E x \in BagToSet(bp.out) : \E y \in Write(x, n) :
          /\ y.len <= MaxBufLen
          /\ bp' = [bp EXCEPT !.out = (@ (-) SetToBag({x})) (+) SetToBag({y}),
                              !.op = "Write", !.b = y]
    /\ UNCHANGED <<handlers, heap, made, mu, writes, sink, stack, last, fv, fres, rv>>

\* a caller frees a buffer it got from New and has not freed
CallerFree ==
    /\ \E x \in BagToSet(bp.out) :
          bp' = [pool |-> Free(bp.pool, x), out |-> bp.out (-) SetToBag({x}),
                 op |-> "Free", b |-> x]
    /\ UNCHANGED <<handlers, heap, made, mu, writes, sink, stack, last, fv, fres, rv>>

\* sync.Pool drops a pooled item, as it may at any time
PoolDrop ==
    /\ \E x \in BagToSet(bp.pool) :
          bp' = [bp EXCEPT !.pool = @ (-) SetToBag({x}), !.op = "Drop", !.b = x]
    /\ UNCHANGED <<handlers, heap, made, mu, writes, sink, stack, last, fv, fres, rv>>

\* no formatValue call is being followed
NotResolving == [pc |-> "idle", cur |-> NilV, depth |-> 0]

(***************************************************************************)
(* State.                                                                  *)
(***************************************************************************)
Procs == 1..NumProcs

\* a Handle call in progress: its receiver, its record, where it stands, its
\* buffer and the capacity of that buffer, whether the record's re-entrant value
\* has already logged, the index of its Write call in writes, the error it will
\* return, the Write calls made
Frame(h, r, cap) ==
    [h |-> h, r |-> r, pc |-> "render", buf |-> <<>>, cap |-> cap,
     nested |-> FALSE, wi |-> 0, err |-> "", nw |-> 0]

\* what last holds before any call has returned
NoLast ==
    [op |-> "none", h |-> 0, name |-> <<>>, attrs |-> <<>>,
     r |-> Rec(LevelInfo, <<>>), got |-> 0, pass |-> FALSE, err |-> "",
     nw |-> 0, wrote |-> 0, trace |-> <<>>]

Top(p) == stack[p][Len(stack[p])]

SetTop(p, f) == [stack EXCEPT ![p] = [@ EXCEPT ![Len(@)] = f]]

RECURSIVE SumSeq(_)
SumSeq(ns) == IF ns = <<>> THEN 0 ELSE Head(ns) + SumSeq(Tail(ns))

\* the Write calls a frame may still make: its own, and that of the record its
\* re-entrant value has yet to log
Pending(f) ==
    (IF f.pc \in {"render", "lock", "write"} THEN 1 ELSE 0)
    + (IF HasRelog(f.r) /\ ~f.nested THEN 1 ELSE 0)

\* Write calls made so far or still to be made by the calls in progress
Committed ==
    Len(writes)
    + SumSeq([p \in Procs |-> SumSeq([i \in 1..Len(stack[p]) |-> Pending(stack[p][i])])])

InitOf(opts) ==
    /\ handlers = <<NewHandler(1, opts, 1, 1)>>
    /\ heap = <<<<>>>>
    /\ made = <<[op |-> "NewHandler", h |-> 0, name |-> <<>>, attrs |-> <<>>]>>
    /\ mu = <<0>>
    /\ writes = <<>>
    /\ sink = <<>>
    /\ stack = [p \in Procs |-> <<>>]
    /\ last = NoLast
    /\ fv = NilV
    /\ fres = NotCalled
    /\ bp = EmptyPool
    /\ rv = NotResolving

\* the state after NewHandler(w, opts)
Init == \E opts \in OptionSets : InitOf(opts)

(***************************************************************************)
(* Derivation: WithAttrs and WithGroup.                                    *)
(***************************************************************************)
\* what the two calls leave in last and in made
AttrsCall(h, attrs, got, trace) ==
    [NoLast EXCEPT !.op = "WithAttrs", !.h = h, !.attrs = attrs, !.got = got,
                   !.trace = trace]
GroupCall(h, name, got) ==
    [NoLast EXCEPT !.op = "WithGroup", !.h = h, !.name = name, !.got = got]
MadeBy(op, h, name, attrs) == [op |-> op, h |-> h, name |-> name, attrs |-> attrs]

\* WithAttrs that gives the new handler a mutex of its own
WithAttrsOwnMutex(h, attrs) ==
    /\ IF attrs = <<>>
       THEN /\ last' = AttrsCall(h, attrs, h, <<>>)
            /\ UNCHANGED <<handlers, heap, made, mu, bp>>
       ELSE LET groupsAddr == Len(heap) + 1
                preAddr == Len(heap) + 2
                got == NewReusing(bp.pool)
                buf == PreOf(h) \o appendAttrs(attrs, GroupsOf(h), handlers[h].replaceAttr)
            IN  /\ heap' = heap \o <<GroupsOf(h), buf>>
                /\ mu' = Append(mu, 0)
                /\ handlers' = Append(handlers,
                        [handlers[h] EXCEPT !.groups = groupsAddr, !.pre = preAddr,
                                            !.mu = Len(mu) + 1])
                /\ made' = Append(made, MadeBy("WithAttrs", h, <<>>, attrs))
                /\ last' = AttrsCall(h, attrs, Len(handlers) + 1,
                        <<Event("New")>>
                        \o appendAttrsTrace(attrs, GroupsOf(h), handlers[h].replaceAttr)
                        \o <<Event("Free")>>)
                /\ \E b \in Write(got.b, Len(buf)) :
                      bp' = [bp EXCEPT !.pool = Free(got.pool, b)]
    /\ UNCHANGED <<writes, sink, stack, fv, fres, rv>>

\* WithAttrs that renders the attributes it binds without the rewrite callback
WithAttrsNoCallback(h, attrs) ==
    /\ IF attrs = <<>>
       THEN /\ last' = AttrsCall(h, attrs, h, <<>>)
            /\ UNCHANGED <<handlers, heap, made, bp>>
       ELSE LET groupsAddr == Len(heap) + 1
                preAddr == Len(heap) + 2
                got == NewReusing(bp.pool)
                buf == PreOf(h) \o appendAttrs(attrs, GroupsOf(h), "nil")
            IN  /\ heap' = heap \o <<GroupsOf(h), buf>>
                /\ handlers' = Append(handlers,
                        [handlers[h] EXCEPT !.groups = groupsAddr, !.pre = preAddr])
                /\ made' = Append(made, MadeBy("WithAttrs", h, <<>>, attrs))
                /\ last' = AttrsCall(h, attrs, Len(handlers) + 1,
                        <<Event("New")>>
                        \o appendAttrsTrace(attrs, GroupsOf(h), "nil")
                        \o <<Event("Free")>>)
                /\ \E b \in Write(got.b, Len(buf)) :
                      bp' = [bp EXCEPT !.pool = Free(got.pool, b)]
    /\ UNCHANGED <<mu, writes, sink, stack, fv, fres, rv>>

\* (h *Handler).WithAttrs(attrs), lines 783-808: the receiver itself for an empty
\* list; else a copy of the struct with a fresh copy of the groups and a fresh
\* block holding the parent's block followed by the newly rendered attributes,
\* rendered in a pooled buffer that is freed on return
WithAttrs(h, attrs) ==
    /\ IF attrs = <<>>
       THEN /\ last' = AttrsCall(h, attrs, h, <<>>)
            /\ UNCHANGED <<handlers, heap, made, bp>>
       ELSE LET groupsAddr == Len(heap) + 1
                preAddr == Len(heap) + 2
                got == NewReusing(bp.pool)
                buf == PreOf(h) \o appendAttrs(attrs, GroupsOf(h), handlers[h].replaceAttr)
                after == GroupsAfterAttrs(attrs, GroupsOf(h), handlers[h].replaceAttr)
            IN  /\ heap' = [heap EXCEPT ![handlers[h].groups] = after]
                            \o <<GroupsOf(h), buf>>
                /\ handlers' = Append(handlers,
                        [handlers[h] EXCEPT !.groups = groupsAddr, !.pre = preAddr])
                /\ made' = Append(made, MadeBy("WithAttrs", h, <<>>, attrs))
                /\ last' = AttrsCall(h, attrs, Len(handlers) + 1,
                        <<Event("New")>>
                        \o appendAttrsTrace(attrs, GroupsOf(h), handlers[h].replaceAttr)
                        \o <<Event("Free")>>)
                /\ \E b \in Write(got.b, Len(buf)) :
                      bp' = [bp EXCEPT !.pool = Free(got.pool, b)]
    /\ UNCHANGED <<mu, writes, sink, stack, fv, fres, rv>>

\* WithGroup without the early return for the empty name
WithGroupAlways(h, name) ==
    /\ LET copyPre == Len(PreOf(h)) > 0
           preAddr == IF copyPre THEN Len(heap) + 1 ELSE handlers[h].pre
           groupsAddr == IF copyPre THEN Len(heap) + 2 ELSE Len(heap) + 1
       IN  /\ heap' = heap \o (IF copyPre THEN <<PreOf(h)>> ELSE <<>>)
                           \o <<Append(GroupsOf(h), name)>>
           /\ handlers' = Append(handlers,
                   [handlers[h] EXCEPT !.groups = groupsAddr, !.pre = preAddr])
           /\ made' = Append(made, MadeBy("WithGroup", h, name, <<>>))
           /\ last' = GroupCall(h, name, Len(handlers) + 1)
    /\ UNCHANGED <<mu, writes, sink, stack, fv, fres, bp, rv>>

\* WithGroup that appends the name to the receiver's own groups array and
\* shares that array with the new handler
WithGroupInPlace(h, name) ==
    /\ IF name = <<>>
       THEN /\ last' = GroupCall(h, name, h)
            /\ UNCHANGED <<handlers, heap, made>>
       ELSE /\ heap' = [heap EXCEPT ![handlers[h].groups] = Append(@, name)]
            /\ handlers' = Append(handlers, handlers[h])
            /\ made' = Append(made, MadeBy("WithGroup", h, name, <<>>))
            /\ last' = GroupCall(h, name, Len(handlers) + 1)
    /\ UNCHANGED <<mu, writes, sink, stack, fv, fres, bp, rv>>

\* WithGroup that hands the new handler an empty block
WithGroupDropsBlock(h, name) ==
    /\ IF name = <<>>
       THEN /\ last' = GroupCall(h, name, h)
            /\ UNCHANGED <<handlers, heap, made>>
       ELSE /\ heap' = Append(heap, Append(GroupsOf(h), name))
            /\ handlers' = Append(handlers,
                    [handlers[h] EXCEPT !.groups = Len(heap) + 1, !.pre = 0])
            /\ made' = Append(made, MadeBy("WithGroup", h, name, <<>>))
            /\ last' = GroupCall(h, name, Len(handlers) + 1)
    /\ UNCHANGED <<mu, writes, sink, stack, fv, fres, bp, rv>>

\* (h *Handler).WithGroup(name), lines 811-828: the receiver itself for the empty
\* name; else a copy of the struct with a fresh groups array one longer, and a
\* fresh copy of the block when the block is not empty
WithGroup(h, name) ==
    /\ IF name = <<>>
       THEN /\ last' = GroupCall(h, name, h)
            /\ UNCHANGED <<handlers, heap, made>>
       ELSE LET copyPre == Len(PreOf(h)) > 0
                preAddr == IF copyPre THEN Len(heap) + 1 ELSE handlers[h].pre
                groupsAddr == IF copyPre THEN Len(heap) + 2 ELSE Len(heap) + 1
            IN  /\ heap' = heap \o (IF copyPre THEN <<PreOf(h)>> ELSE <<>>)
                                \o <<Append(GroupsOf(h), name)>>
                /\ handlers' = Append(handlers,
                        [handlers[h] EXCEPT !.groups = groupsAddr, !.pre = preAddr])
                /\ made' = Append(made, MadeBy("WithGroup", h, name, <<>>))
                /\ last' = GroupCall(h, name, Len(handlers) + 1)
    /\ UNCHANGED <<mu, writes, sink, stack, fv, fres, bp, rv>>


(***************************************************************************)
(* Handle.                                                                 *)
(***************************************************************************)
\* what a Handle call that returned leaves in last: among others the calls it
\* made, in order
HandleReturn(h, r, pass, err, nw, wrote, trace) ==
    [NoLast EXCEPT !.op = "Handle", !.h = h, !.r = r, !.pass = pass,
                   !.err = err, !.nw = nw, !.wrote = wrote, !.trace = trace]

\* Handle that filters on the level the callback returned for the level
\* attribute rather than on the record's level
HandleFilterAfterRewrite(h, r, ok) ==
    LET cb == handlers[h].replaceAttr
        levelAttr == IF cb # "nil"
                     THEN CallReplaceAttr(cb, <<>>, Attr(LevelKey, LevelV(r.level)))
                     ELSE Attr(LevelKey, LevelV(r.level))
        level == IF levelAttr.key # <<>> /\ levelAttr.val.t = "level"
                 THEN levelAttr.val.n ELSE r.level
    IN
    /\ \A p \in Procs : stack[p] = <<>>
    /\ IF ~Enabled(handlers[h], level)
       THEN /\ ok
            /\ UNCHANGED <<writes, sink, bp>>
            /\ last' = HandleReturn(h, r, FALSE, "", 0, 0, <<>>)
       ELSE LET line == RenderLine(handlers[h], GroupsOf(h), PreOf(h), r)
                got == NewReusing(bp.pool)
            IN
            /\ mu[handlers[h].mu] = 0
            /\ writes' = Append(writes,
                    [data |-> line, done |-> TRUE])
            /\ sink' = IF ok THEN sink \o line ELSE sink
            /\ last' = HandleReturn(h, r, TRUE, IF ok THEN "" ELSE "EIO", 1,
                                    Len(sink') - Len(sink),
                                    HandleTrace(handlers[h], GroupsOf(h), r))
            /\ \E b \in Write(got.b, Len(line)) :
                  bp' = [bp EXCEPT !.pool = Free(got.pool, b)]
    /\ UNCHANGED <<handlers, heap, made, mu, stack, fv, fres, rv>>

\* (h *Handler).Handle(ctx, r), lines 532-623, run to completion by a goroutine
\* that nobody interleaves with: filter, buffer.New, render, Lock, one Write of
\* the whole buffer, Unlock, return Write's error, buf.Free.  ok is whether the sink takes the
\* bytes; a sink that fails takes none.
Handle(h, r, ok) ==
    /\ \A p \in Procs : stack[p] = <<>>
    /\ IF ~Enabled(handlers[h], r.level)
       THEN /\ ok
            /\ UNCHANGED <<writes, sink, bp, heap>>
            /\ last' = HandleReturn(h, r, FALSE, "", 0, 0, <<>>)
       ELSE LET line == RenderLine(handlers[h], GroupsOf(h), PreOf(h), r)
                got == NewReusing(bp.pool)
                after == GroupsAfterAttrs(r.attrs, GroupsOf(h), handlers[h].replaceAttr)
            IN
            /\ mu[handlers[h].mu] = 0
            /\ heap' = [heap EXCEPT ![handlers[h].groups] = after]
            /\ writes' = Append(writes,
                    [data |-> line, done |-> TRUE])
            /\ sink' = IF ok THEN sink \o line ELSE sink
            /\ last' = HandleReturn(h, r, TRUE, IF ok THEN "" ELSE "EIO", 1,
                                    Len(sink') - Len(sink),
                                    HandleTrace(handlers[h], GroupsOf(h), r))
            /\ \E b \in Write(got.b, Len(line)) :
                  bp' = [bp EXCEPT !.pool = Free(got.pool, b)]
    /\ UNCHANGED <<handlers, made, mu, stack, fv, fres, rv>>

(***************************************************************************)
(* Handle, step by step, for goroutines that interleave.  A goroutine's    *)
(* Handle call is a frame on its stack; a value that logs again pushes a   *)
(* second frame.  The sink of these steps is an in-memory buffer that      *)
(* takes the first half of a payload when Write is entered and the rest    *)
(* when Write returns.                                                     *)
(***************************************************************************)
\* Handle that takes the output mutex on entry, before rendering
HandleCallLocked(p, h, r) ==
    /\ stack[p] = <<>>
    /\ IF ~Enabled(handlers[h], r.level)
       THEN UNCHANGED <<stack, mu, bp>>
       ELSE LET got == NewReusing(bp.pool) IN
            /\ mu[handlers[h].mu] = 0
            /\ mu' = [mu EXCEPT ![handlers[h].mu] = p]
            /\ stack' = [stack EXCEPT ![p] = <<Frame(h, r, got.b.cap)>>]
            /\ bp' = [bp EXCEPT !.pool = got.pool]
    /\ UNCHANGED <<handlers, heap, made, writes, sink, last, fv, fres, rv>>

\* Handle is called (line 532) and filters on the record's level (533-535):
\* a filtered call returns nil at once and leaves no trace; any other takes a
\* buffer from the pool (537)
HandleCall(p, h, r) ==
    /\ stack[p] = <<>>
    /\ IF ~Enabled(handlers[h], r.level)
       THEN UNCHANGED <<stack, bp>>
       ELSE LET got == NewReusing(bp.pool) IN
            /\ stack' = [stack EXCEPT ![p] = <<Frame(h, r, got.b.cap)>>]
            /\ bp' = [bp EXCEPT !.pool = got.pool]
    /\ UNCHANGED <<handlers, heap, made, mu, writes, sink, last, fv, fres, rv>>

\* Handle renders the line into its own buffer (537-617).  Resolving a
\* re-entrant value first runs a whole Handle call on the root handler.
HandleRender(p) ==
    /\ stack[p] # <<>>
    /\ Top(p).pc = "render"
    /\ LET f == Top(p) IN
       IF HasRelog(f.r) /\ ~f.nested
       THEN LET marked == SetTop(p, [f EXCEPT !.nested = TRUE])
                got == NewReusing(bp.pool)
            IN
            IF Enabled(handlers[1], NestedRecord.level)
            THEN /\ stack' = [marked EXCEPT
                                 ![p] = Append(@, Frame(1, NestedRecord, got.b.cap))]
                 /\ bp' = [bp EXCEPT !.pool = got.pool]
                 /\ UNCHANGED heap
            ELSE /\ stack' = marked
                 /\ UNCHANGED <<bp, heap>>
       ELSE LET line == RenderLine(handlers[f.h], GroupsOf(f.h), PreOf(f.h), f.r)
                after == GroupsAfterAttrs(f.r.attrs, GroupsOf(f.h),
                                          handlers[f.h].replaceAttr)
            IN
            /\ \E b \in Write(Buffer(0, f.cap), Len(line)) :
                  stack' = SetTop(p, [f EXCEPT !.buf = line, !.cap = b.cap,
                                               !.pc = "lock"])
            /\ heap' = [heap EXCEPT ![handlers[f.h].groups] = after]
            /\ UNCHANGED bp
    /\ UNCHANGED <<handlers, made, mu, writes, sink, last, fv, fres, rv>>

\* h.mu.Lock() that does not wait for the mutex
HandleLockNoWait(p) ==
    /\ stack[p] # <<>>
    /\ Top(p).pc = "lock"
    /\ stack' = SetTop(p, [Top(p) EXCEPT !.pc = "write"])
    /\ UNCHANGED <<handlers, heap, made, mu, writes, sink, last, fv, fres, bp, rv>>

\* h.mu.Lock() (line 619): waits until the mutex is free, then holds it
HandleLock(p) ==
    /\ stack[p] # <<>>
    /\ Top(p).pc = "lock"
    /\ mu[handlers[Top(p).h].mu] = 0
    /\ mu' = [mu EXCEPT ![handlers[Top(p).h].mu] = p]
    /\ stack' = SetTop(p, [Top(p) EXCEPT !.pc = "write"])
    /\ UNCHANGED <<handlers, heap, made, writes, sink, last, fv, fres, bp, rv>>

\* h.out.Write(*buf) is entered (line 620) with the whole buffer
HandleWrite(p) ==
    /\ stack[p] # <<>>
    /\ Top(p).pc = "write"
    /\ LET data == Top(p).buf IN
       /\ writes' = Append(writes,
               [data |-> data, done |-> FALSE])
       /\ sink' = sink \o SubSeq(data, 1, Len(data) \div 2)
    /\ stack' = SetTop(p, [Top(p) EXCEPT !.pc = "writing", !.wi = Len(writes) + 1,
                                         !.nw = @ + 1])
    /\ UNCHANGED <<handlers, heap, made, mu, last, fv, fres, bp, rv>>

\* the sink's Write returns
WriteReturn(p) ==
    /\ stack[p] # <<>>
    /\ Top(p).pc = "writing"
    /\ LET data == Top(p).buf IN
       /\ writes' = [writes EXCEPT ![Top(p).wi] = [@ EXCEPT !.done = TRUE]]
       /\ sink' = sink \o SubSeq(data, Len(data) \div 2 + 1, Len(data))
    /\ stack' = SetTop(p, [Top(p) EXCEPT !.pc = "unlock"])
    /\ UNCHANGED <<handlers, heap, made, mu, last, fv, fres, bp, rv>>

\* h.out.Write(*buf) is entered (line 620) on a sink that takes no byte
HandleWriteFails(p) ==
    /\ stack[p] # <<>>
    /\ Top(p).pc = "write"
    /\ writes' = Append(writes, [data |-> Top(p).buf, done |-> FALSE, err |-> "EIO"])
    /\ stack' = SetTop(p, [Top(p) EXCEPT !.pc = "failing", !.wi = Len(writes) + 1,
                                         !.nw = @ + 1])
    /\ UNCHANGED <<handlers, heap, made, mu, sink, last, fv, fres, bp, rv>>

\* that Write returns its error, which Handle keeps in err
WriteFails(p) ==
    /\ stack[p] # <<>>
    /\ Top(p).pc = "failing"
    /\ writes' = [writes EXCEPT ![Top(p).wi] = [@ EXCEPT !.done = TRUE]]
    /\ stack' = SetTop(p, [Top(p) EXCEPT !.pc = "unlock", !.err = writes[Top(p).wi].err])
    /\ UNCHANGED <<handlers, heap, made, mu, sink, last, fv, fres, bp, rv>>

\* Handle that returns a Write error at once, without h.mu.Unlock()
HandleUnlockOnSuccess(p) ==
    /\ stack[p] # <<>>
    /\ Top(p).pc = "unlock"
    /\ mu' = IF Top(p).err = "" THEN [mu EXCEPT ![handlers[Top(p).h].mu] = 0] ELSE mu
    /\ stack' = [stack EXCEPT ![p] = SubSeq(@, 1, Len(@) - 1)]
    /\ bp' = [bp EXCEPT !.pool = Free(@, Buffer(Len(Top(p).buf), Top(p).cap))]
    /\ UNCHANGED <<handlers, heap, made, writes, sink, last, fv, fres, rv>>

\* h.mu.Unlock() and return err (lines 621-622), on which the deferred
\* buf.Free() runs (538)
HandleUnlock(p) ==
    /\ stack[p] # <<>>
    /\ Top(p).pc = "unlock"
    /\ mu' = [mu EXCEPT ![handlers[Top(p).h].mu] = 0]
    /\ stack' = [stack EXCEPT ![p] = SubSeq(@, 1, Len(@) - 1)]
    /\ bp' = [bp EXCEPT !.pool = Free(@, Buffer(Len(Top(p).buf), Top(p).cap))]
    /\ UNCHANGED <<handlers, heap, made, writes, sink, last, fv, fres, rv>>

(***************************************************************************)
(* formatValue called on its own.                                          *)
(***************************************************************************)
\* formatValue(buf, fv) on an empty buffer
FormatValueCall ==
    /\ fres = NotCalled
    /\ fres' = formatValue(fv)
    /\ UNCHANGED <<handlers, heap, made, mu, writes, sink, stack, last, fv, bp, rv>>

(***************************************************************************)
(* formatValue followed one call at a time.  rv.cur is the argument of the *)
(* innermost call and rv.depth the number of calls on the stack.           *)
(***************************************************************************)
\* the result of LogValue written for a value-provider that yields itself
Itself == [t |-> "self"]

\* value-providers whose LogValue returns the receiver: without FormatForLog and
\* with it
SelfProviders ==
    {NamedV(TRUE, Itself, FALSE, TextOk(<<>>), TextOk(<<"{", "}">>)),
     NamedV(TRUE, Itself, TRUE, TextOk(<<"f", "m", "t">>), TextOk(<<"{", "}">>))}

\* lv.LogValue().Any() (line 706)
LogValueOf(v) == IF Receiver(v).lv = Itself THEN v ELSE Receiver(v).lv

\* formatValue(buf, fv) is called
ResolveCall ==
    /\ rv.pc = "idle"
    /\ rv' = [pc |-> "running", cur |-> fv, depth |-> 1]
    /\ UNCHANGED <<handlers, heap, made, mu, writes, sink, stack, last, fv, fres, bp>>

\* one formatValue call that gives up on value-providers below the first
ResolveStepOneLevel ==
    /\ rv.pc = "running"
    /\ LET v == rv.cur IN
       IF v.t # "nil" /\ IsLogValuer(v) /\ ~IsNilPtr(v) /\ rv.depth < 2
       THEN /\ rv' = [rv EXCEPT !.cur = LogValueOf(v),
                                !.depth = IF @ < MaxDepth THEN @ + 1 ELSE @]
            /\ UNCHANGED fres
       ELSE /\ rv' = [rv EXCEPT !.pc = "done"]
            /\ fres' = [formatByFallback(v) EXCEPT !.calls = <<>>]
    /\ UNCHANGED <<handlers, heap, made, mu, writes, sink, stack, last, fv, bp>>

\* the innermost formatValue call runs: for a value-provider it calls itself on
\* the LogValue result (705-707); for any other value it writes the value and
\* returns, and with it every call above it (706: return formatValue(...))
ResolveStep ==
    /\ rv.pc = "running"
    /\ LET v == rv.cur IN
       IF v.t # "nil" /\ IsLogValuer(v) /\ ~IsNilPtr(v)
       THEN /\ rv' = [rv EXCEPT !.cur = LogValueOf(v),
                                !.depth = IF @ < MaxDepth THEN @ + 1 ELSE @]
            /\ UNCHANGED fres
       ELSE /\ rv' = [rv EXCEPT !.pc = "done"]
            /\ fres' = [formatValue(v) EXCEPT !.calls = <<>>]
    /\ UNCHANGED <<handlers, heap, made, mu, writes, sink, stack, last, fv, bp>>

(***************************************************************************)
(* appendAttr called on its own, to render one key under at most one group. *)
(***************************************************************************)
KeyBytes == {"a", ".", " ", "=", "\"", "\n", "^A", "DEL"}

RECURSIVE KeysUpTo(_)
\* every key of at most n bytes
KeysUpTo(n) ==
    IF n = 0 THEN {<<>>}
    ELSE LET shorter == KeysUpTo(n - 1) IN
         shorter \cup {Append(k, c) : k \in shorter, c \in KeyBytes}

TestKeys == KeysUpTo(MaxKeyLen)

\* the arguments of an appendAttr call
KeyInput(key, groups) == [t |-> "attr", key |-> key, groups |-> groups]

\* appendAttr(buf, key, slog.IntValue(1), groups, nil) on an empty buffer
AppendAttrCall ==
    /\ fres = NotCalled
    /\ fv.t = "attr"
    /\ fres' = FvOk(appendAttr(fv.key, IntV(1), fv.groups, "nil"))
    /\ UNCHANGED <<handlers, heap, made, mu, writes, sink, stack, last, fv, bp, rv>>

(***************************************************************************)
(* The time encoders called on their own.  A timestamp is its calendar     *)
(* fields, as t.Date(), t.Clock() and t.Nanosecond() return them.          *)
(***************************************************************************)
Clock(year, month, day, hour, min, sec, nsec) ==
    [t |-> "clock", year |-> year, month |-> month, day |-> day,
     hour |-> hour, min |-> min, sec |-> sec, nsec |-> nsec]

\* formatTimeDefault(buf, t), lines 401-442
formatTimeDefault(t) ==
    LET ms == t.nsec \div 1000000 IN
    AppendInt(t.year) \o <<"-">>
    \o (IF t.month < 10 THEN <<"0">> ELSE <<>>) \o AppendInt(t.month) \o <<"-">>
    \o (IF t.day < 10 THEN <<"0">> ELSE <<>>) \o AppendInt(t.day) \o <<" ">>
    \o (IF t.hour < 10 THEN <<"0">> ELSE <<>>) \o AppendInt(t.hour) \o <<":">>
    \o (IF t.min < 10 THEN <<"0">> ELSE <<>>) \o AppendInt(t.min) \o <<":">>
    \o (IF t.sec < 10 THEN <<"0">> ELSE <<>>) \o AppendInt(t.sec) \o <<".">>
    \o (IF ms < 100 THEN <<"0">> \o (IF ms < 10 THEN <<"0">> ELSE <<>>) ELSE <<>>)
    \o AppendInt(ms)

\* package time's appendInt(b, x, width) for x >= 0: the decimal digits,
\* zero-padded on the left to the width
appendIntWidth(x, width) ==
    LET digits == AppendInt(x) IN
    [i \in 1..(IF Len(digits) < width THEN width - Len(digits) ELSE 0) |-> "0"]
    \o digits

\* t.AppendFormat(buf, "2006-01-02 15:04:05.000"): year to four digits, the
\* other fields to two, and the first three digits of the nanoseconds
AppendFormatDefaultLayout(t) ==
    appendIntWidth(t.year, 4) \o <<"-">> \o appendIntWidth(t.month, 2) \o <<"-">>
    \o appendIntWidth(t.day, 2) \o <<" ">> \o appendIntWidth(t.hour, 2) \o <<":">>
    \o appendIntWidth(t.min, 2) \o <<":">> \o appendIntWidth(t.sec, 2) \o <<".">>
    \o SubSeq(appendIntWidth(t.nsec, 9), 1, 3)

\* the encoder makeTimeFormatter(format) returns, applied to t
ApplyTimeFormatter(format, t) ==
    IF makeTimeFormatter(format) = "formatTimeDefault" THEN formatTimeDefault(t)
    ELSE IF format = defaultTimeFormat THEN AppendFormatDefaultLayout(t)
    ELSE <<format>>

TestClocks ==
    {Clock(y, mo, d, h, 5, s, ns) :
        y \in {1, 999, 1000, 2024, 10000}, mo \in {1, 12}, d \in {2, 31},
        h \in {0, 23}, s \in {9, 59},
        ns \in {0, 999999, 7000000, 123456789, 999999999}}

\* makeTimeFormatter(defaultTimeFormat)(buf, fv) on an empty buffer
TimeFormatterCall ==
    /\ fres = NotCalled
    /\ fv.t = "clock"
    /\ fres' = FvOk(ApplyTimeFormatter(defaultTimeFormat, fv))
    /\ UNCHANGED <<handlers, heap, made, mu, writes, sink, stack, last, fv, bp, rv>>

(***************************************************************************)
(* The level token formatted on its own.                                   *)
(***************************************************************************)
TestLevels == (LevelDebug - LevelSpan)..(LevelError + LevelSpan)

LevelInput(level, useColors) == [t |-> "lvl", n |-> level, useColors |-> useColors]

\* h.formatLevelWithColor(level) for a handler with the given UseColors
FormatLevelCall ==
    /\ fres = NotCalled
    /\ fv.t = "lvl"
    /\ fres' = FvOk(formatLevelWithColor([useColors |-> fv.useColors], fv.n))
    /\ UNCHANGED <<handlers, heap, made, mu, writes, sink, stack, last, fv, bp, rv>>

(***************************************************************************)
(* Specifications.                                                         *)
(***************************************************************************)
\* One goroutine derives handlers and logs through them.  The sink's Write may
\* fail on the ERROR record.
Next ==
    \/ \E h \in 1..Len(handlers), attrs \in BoundAttrs :
          Len(handlers) < MaxHandlers /\ WithAttrs(h, attrs)
    \/ \E h \in 1..Len(handlers), name \in GroupNames :
          Len(handlers) < MaxHandlers /\ WithGroup(h, name)
    \/ \E h \in 1..Len(handlers), r \in Records :
          \E ok \in {b \in BOOLEAN : b \/ r.level = LevelError} :
             Len(writes) < MaxWrites /\ Handle(h, r, ok)

Spec == Init /\ [][Next]_vars

\* Several goroutines log through the handlers of one root, and the values
\* they log may log again.
NextConc ==
    \/ \E h \in 1..Len(handlers), attrs \in BoundAttrs :
          Len(handlers) < ConcHandlers /\ WithAttrs(h, attrs)
    \/ \E h \in 1..Len(handlers), name \in GroupNames :
          Len(handlers) < ConcHandlers /\ WithGroup(h, name)
    \/ \E p \in Procs, h \in 1..Len(handlers), r \in ConcRecords :
          /\ Committed + (IF HasRelog(r) THEN 2 ELSE 1) <= ConcWrites
          /\ HandleCall(p, h, r)
    \/ \E p \in Procs : HandleRender(p)
    \/ \E p \in Procs : HandleLock(p)
    \/ \E p \in Procs : HandleWrite(p)
    \/ \E p \in Procs : WriteReturn(p)
    \/ \E p \in Procs : HandleUnlock(p)

InitConc == InitOf(CHOOSE opts \in OptionSets : opts.Level = LevelWarn)

SpecConc == InitConc /\ [][NextConc]_vars

\* Several goroutines log through the handlers of one root into a sink whose
\* Write may fail.
SinkRecords == {Rec(LevelError, <<Attr(<<"j">>, IntV(1))>>)}

Failed(w) == "err" \in DOMAIN w

NextSink ==
    \/ Len(handlers) < ConcHandlers /\ WithGroup(Len(handlers), <<"a">>)
    \/ \E p \in Procs, h \in 1..Len(handlers), r \in SinkRecords :
          /\ Committed + 1 <= ConcWrites
          /\ HandleCall(p, h, r)
    \/ \E p \in Procs : HandleRender(p)
    \/ \E p \in Procs : HandleLock(p)
    \/ \E p \in Procs : HandleWrite(p)
    \/ \E p \in Procs : WriteReturn(p)
    \/ \E p \in Procs : HandleWriteFails(p)
    \/ \E p \in Procs : WriteFails(p)
    \/ \E p \in Procs : HandleUnlock(p)

SpecSink == InitConc /\ [][NextSink]_vars

\* formatValue called once on each value of Values.
InitFmt ==
    /\ handlers = <<NewHandler(1, CHOOSE opts \in OptionSets : opts.Level = LevelInfo, 1, 1)>>
    /\ heap = <<<<>>>>
    /\ made = <<[op |-> "NewHandler", h |-> 0, name |-> <<>>, attrs |-> <<>>]>>
    /\ mu = <<0>>
    /\ writes = <<>>
    /\ sink = <<>>
    /\ stack = [p \in Procs |-> <<>>]
    /\ last = NoLast
    /\ fv \in Values
    /\ fres = NotCalled
    /\ bp = EmptyPool
    /\ rv = NotResolving

NextFmt == FormatValueCall

SpecFmt == InitFmt /\ [][NextFmt]_vars

\* One goroutine derives a chain of handlers from a root with any of the
\* callbacks, each from the one before, and logs through them; the sink takes
\* every line.
InitLine == \E opts \in LineOptionSets : InitOf(opts)

NextLine ==
    \/ \E attrs \in LineBoundAttrs :
          Len(handlers) < LineHandlers /\ WithAttrs(Len(handlers), attrs)
    \/ \E name \in LineGroupNames :
          Len(handlers) < LineHandlers /\ WithGroup(Len(handlers), name)
    \/ \E h \in 1..Len(handlers), r \in LineRecords :
          Len(writes) < LineWrites /\ Handle(h, r, TRUE)

SpecLine == InitLine /\ [][NextLine]_vars

\* One goroutine derives a chain of handlers from a root without source capture
\* and logs through them, records below the minimum level among them.
InitBind == \E opts \in BindOptionSets : InitOf(opts)

NextBind ==
    \/ \E attrs \in BindBoundAttrs :
          Len(handlers) < LineHandlers /\ WithAttrs(Len(handlers), attrs)
    \/ \E name \in BindGroupNames :
          Len(handlers) < LineHandlers /\ WithGroup(Len(handlers), name)
    \/ \E h \in 1..Len(handlers), r \in BindRecords :
          Len(writes) < LineWrites /\ Handle(h, r, TRUE)

SpecBind == InitBind /\ [][NextBind]_vars

\* One goroutine derives a chain of handlers from a root whose callback writes
\* to the groups slice it is handed, or from one whose callback only reads it,
\* and logs through them more than once.
AliasOptionSets ==
    {[Level |-> LevelInfo, UseColors |-> FALSE, TimeFormat |-> "",
      AddSource |-> FALSE, ReplaceAttr |-> cb] : cb \in {"clobber", "same"}}

AliasRecords ==
    {Rec(LevelInfo, <<>>), Rec(LevelInfo, <<Attr(<<"j">>, IntV(1))>>)}

InitAlias == \E opts \in AliasOptionSets : InitOf(opts)

NextAlias ==
    \/ \E attrs \in BindBoundAttrs :
          Len(handlers) < LineHandlers /\ WithAttrs(Len(handlers), attrs)
    \/ \E name \in BindGroupNames :
          Len(handlers) < LineHandlers /\ WithGroup(Len(handlers), name)
    \/ \E h \in 1..Len(handlers), r \in AliasRecords :
          Len(writes) < AliasWrites /\ Handle(h, r, TRUE)

SpecAlias == InitAlias /\ [][NextAlias]_vars

\* the state before a function is called on its own on one of the inputs
InitPure(inputs) ==
    /\ handlers = <<NewHandler(1, CHOOSE opts \in OptionSets : opts.Level = LevelInfo, 1, 1)>>
    /\ heap = <<<<>>>>
    /\ made = <<[op |-> "NewHandler", h |-> 0, name |-> <<>>, attrs |-> <<>>]>>
    /\ mu = <<0>>
    /\ writes = <<>>
    /\ sink = <<>>
    /\ stack = [p \in Procs |-> <<>>]
    /\ last = NoLast
    /\ fv \in inputs
    /\ fres = NotCalled
    /\ bp = EmptyPool
    /\ rv = NotResolving

\* appendAttr called once with a name of TestKeys, as the key of an attribute
\* outside any group or as the group of an attribute with key "k".
InitKey ==
    InitPure({KeyInput(k, <<>>) : k \in TestKeys}
             \cup {KeyInput(<<"k">>, <<k>>) : k \in TestKeys})

NextKey == AppendAttrCall

SpecKey == InitKey /\ [][NextKey]_vars

\* The level token is formatted once, for a standard or a custom level, with
\* or without colours.
InitLevel == InitPure({LevelInput(l, c) : l \in TestLevels, c \in BOOLEAN})

NextLevel == FormatLevelCall

SpecLevel == InitLevel /\ [][NextLevel]_vars

\* The encoder selected for the default layout is called once on a timestamp.
InitTime == InitPure(TestClocks)

NextTime == TimeFormatterCall

SpecTime == InitTime /\ [][NextTime]_vars

\* formatValue is called once, on a value of Values or on a value-provider that
\* yields itself, and runs call by call; the goroutine running it keeps running.
InitResolve == InitPure(Values \cup SelfProviders)

NextResolve == ResolveCall \/ ResolveStep

SpecResolve == InitResolve /\ [][NextResolve]_vars /\ WF_vars(NextResolve)

\* The buffer package called directly: callers take buffers, write to the ones
\* they hold and free them, while the pool may drop what it holds.
NextPool ==
    \/ CallerNew
    \/ \E n \in WriteSizes : CallerWrite(n)
    \/ CallerFree
    \/ PoolDrop

SpecPool == InitPure({NilV}) /\ [][NextPool]_vars


(***************************************************************************)
(* Two attributes rendered side by side: appendAttr called twice with nil  *)
(* callback and the value 1, on keys and group paths that spell the same   *)
(* dotted name.                                                            *)
(***************************************************************************)
PathBytes == {"a", ".", "\""}

RECURSIVE NamesOver(_, _)
\* every name of at most n bytes of the given set
NamesOver(bytes, n) ==
    IF n = 0 THEN {<<>>}
    ELSE LET shorter == NamesOver(bytes, n - 1) IN
         shorter \cup {Append(k, c) : k \in shorter, c \in bytes}

PathNames == NamesOver(PathBytes, MaxSegLen)

\* a handler's group names are never empty: WithGroup("") returns the receiver
\* (lines 812-814)
PathGroupNames == PathNames \ {<<>>}

\* an attribute outside any group, or inside one group
PathInputs ==
    {KeyInput(k, <<>>) : k \in PathNames}
    \cup {KeyInput(k, <<g>>) : k \in PathNames, g \in PathGroupNames}

\* the names of an attribute from the outermost group to the key
Segments(in) == Append(in.groups, in.key)

RECURSIVE JoinDots(_)
JoinDots(segs) ==
    IF Len(segs) = 1 THEN segs[1]
    ELSE segs[1] \o <<".">> \o JoinDots(Tail(segs))

RECURSIVE SplitsAtDots(_)
\* every way of cutting a dotted name into segments at some of its dots
SplitsAtDots(name) ==
    {<<name>>} \cup
    UNION { {<<SubSeq(name, 1, i - 1)>> \o rest :
                rest \in SplitsAtDots(SubSeq(name, i + 1, Len(name)))} :
            i \in {j \in 1..Len(name) : name[j] = "."} }

\* the attributes (group path and key) that spell the same dotted name as in
Resplits(in) ==
    {KeyInput(segs[Len(segs)], SubSeq(segs, 1, Len(segs) - 1)) :
        segs \in {ss \in SplitsAtDots(JoinDots(Segments(in))) :
                     /\ Len(ss) <= 2
                     /\ \A i \in 1..Len(ss) : Len(ss[i]) <= MaxSegLen
                     /\ \A i \in 1..(Len(ss) - 1) : ss[i] # <<>>}}

PairInput(a, b) == [t |-> "pair", a |-> a, b |-> b]

InitPath ==
    InitPure(UNION { {PairInput(a, b) : b \in Resplits(a)} : a \in PathInputs })

\* appendAttr(buf, key, slog.IntValue(1), groups, nil) for the first attribute
AppendAttrFirst ==
    /\ fres = NotCalled
    /\ fv.t = "pair"
    /\ fres' = FvOk(<<appendAttr(fv.a.key, IntV(1), fv.a.groups, "nil")>>)
    /\ UNCHANGED <<handlers, heap, made, mu, writes, sink, stack, last, fv, bp, rv>>

\* the same call for the second attribute, on a buffer of its own
AppendAttrSecond ==
    /\ fres # NotCalled
    /\ fv.t = "pair"
    /\ Len(fres.out) = 1
    /\ fres' = FvOk(Append(fres.out, appendAttr(fv.b.key, IntV(1), fv.b.groups, "nil")))
    /\ UNCHANGED <<handlers, heap, made, mu, writes, sink, stack, last, fv, bp, rv>>

NextPath == AppendAttrFirst \/ AppendAttrSecond

SpecPath == InitPath /\ [][NextPath]_vars


(***************************************************************************)
(* Properties.                                                             *)
(***************************************************************************)
IsPrefix(a, b) == Len(a) <= Len(b) /\ SubSeq(b, 1, Len(a)) = a

IsInfix(a, b) ==
    \E k \in 0..(Len(b) - Len(a)) : SubSeq(b, k + 1, k + Len(a)) = a

\* one complete line: a newline as the last byte and nowhere else
IsLine(d) ==
    /\ Len(d) > 0
    /\ d[Len(d)] = "\n"
    /\ \A k \in 1..(Len(d) - 1) : d[k] # "\n"

FramesOf(p) == 1..Len(stack[p])

RECURSIVE NamesOf(_)
\* the names given to the WithGroup calls on the way from the root to handler i
NamesOf(i) ==
    IF made[i].op = "NewHandler" THEN <<>>
    ELSE NamesOf(made[i].h)
         \o (IF made[i].op = "WithGroup" THEN <<made[i].name>> ELSE <<>>)

NonEmptyNames(names) == SelectSeq(names, LAMBDA n : n # <<>>)

PathOf(i) == NonEmptyNames(NamesOf(i))

RECURSIVE Dotted(_)
\* a path written segment by segment, each segment as a key is written and
\* followed by '.'
Dotted(path) ==
    IF path = <<>> THEN <<>>
    ELSE (IF needsQuoting(Head(path)) THEN Quote(Head(path)) ELSE Head(path))
         \o <<".">> \o Dotted(Tail(path))

\* the attributes of a list that the handler's callback lets through, as it
\* returns them
Surviving(h, attrs) ==
    LET cb == handlers[h].replaceAttr
        out == [k \in 1..Len(attrs) |->
                   IF cb = "nil" THEN attrs[k]
                   ELSE CallReplaceAttr(cb, PathOf(h), attrs[k])]
    IN  SelectSeq(out, LAMBDA a : cb = "nil" \/ a.key # <<>>)

\* every attribute of the list is found in the bytes with its key behind the path
KeysPrefixed(path, attrs, bytes) ==
    \A k \in 1..Len(attrs) :
        IsInfix(<<" ">> \o Dotted(path) \o renderKey(attrs[k].key) \o <<"=">>, bytes)

RECURSIVE AncestorsOf(_)
AncestorsOf(i) ==
    IF made[i].op = "NewHandler" THEN {}
    ELSE {made[i].h} \cup AncestorsOf(made[i].h)

\* C1: goroutines calling Handle on handlers of one root: every record that
\* passes the filter reaches the sink as exactly one Write call carrying the
\* whole line with its final newline, no two Write calls are in progress at
\* once, and the sink holds the lines one after the other, never interleaved.
C1_WholeLinesNeverInterleave ==
    /\ Cardinality({i \in 1..Len(writes) : ~writes[i].done}) <= 1
    /\ \A i \in 1..Len(writes) : IsLine(writes[i].data)
    /\ \A p \in Procs : \A k \in FramesOf(p) :
          LET f == stack[p][k] IN
          /\ f.pc \in {"render", "lock", "write"} => f.nw = 0
          /\ f.pc \in {"writing", "unlock"} =>
                /\ f.nw = 1
                /\ writes[f.wi].data = f.buf
                /\ f.buf = RenderLine(handlers[f.h], GroupsOf(f.h), PreOf(f.h), f.r)
    /\ sink = Flatten([i \in 1..Len(writes) |->
                          IF writes[i].done THEN writes[i].data
                          ELSE SubSeq(writes[i].data, 1, Len(writes[i].data) \div 2)])

\* C1 witness: one goroutine is inside Write through a derived handler while
\* another, logging through the root, waits for the mutex
C1_Witness ==
    \E p \in Procs, q \in Procs :
        /\ p # q
        /\ stack[p] # <<>> /\ stack[q] # <<>>
        /\ Top(p).pc = "writing" /\ Top(p).h > 1
        /\ Top(q).pc = "lock" /\ Top(q).h = 1

C3_SharedConfiguration ==
    \A i \in 1..Len(handlers) :
        /\ handlers[i].out = handlers[1].out
        /\ handlers[i].mu = handlers[1].mu
        /\ handlers[i].minLevel = handlers[1].minLevel
        /\ handlers[i].useColors = handlers[1].useColors
        /\ handlers[i].addSource = handlers[1].addSource
        /\ handlers[i].timeFormat = handlers[1].timeFormat
        /\ handlers[i].timeFormatter = handlers[1].timeFormatter
        /\ handlers[i].replaceAttr = handlers[1].replaceAttr

\* C3 witness: a handler made by WithGroup from one made by WithAttrs
C3_Witness ==
    \E i \in 1..Len(handlers) :
        /\ made[i].op = "WithGroup"
        /\ made[made[i].h].op = "WithAttrs"

\* C4: a goroutine holds the output mutex only from Lock to Unlock around the
\* Write of its innermost Handle call: it holds none while that call is
\* rendering (which is where callbacks, LogValue and FormatForLog run) or is
\* waiting for the mutex, and a call that is waiting for a nested call is
\* itself still rendering, so a value that logs again is never stopped by its
\* own caller.
C4_MutexOnlyAroundWrite ==
    \A p \in Procs :
        /\ \A m \in 1..Len(mu) :
              mu[m] = p =>
                 /\ stack[p] # <<>>
                 /\ Top(p).pc \in {"write", "writing", "unlock"}
                 /\ handlers[Top(p).h].mu = m
        /\ stack[p] # <<>> /\ Top(p).pc \in {"render", "lock"} =>
              \A m \in 1..Len(mu) : mu[m] # p
        /\ \A k \in 1..(Len(stack[p]) - 1) : stack[p][k].pc = "render"

\* C4 witness: a call whose value logged again has written its own line after
\* the nested call wrote and returned
C4_Witness ==
    \E p \in Procs :
        /\ Len(stack[p]) = 1
        /\ Top(p).nested
        /\ Top(p).pc = "unlock"
        /\ Len(writes) = 2
        /\ writes[1].data = RenderLine(handlers[1], GroupsOf(1), PreOf(1), NestedRecord)

\* C5: Handle passes a record exactly when its level is at least the handler's
\* minimum; a filtered record makes no Write call, adds no byte to the sink and
\* returns nil; a passing one makes one Write call with one line.  With minimum
\* WARN, DEBUG and INFO are filtered, WARN and ERROR pass.
C5_LevelFilter ==
    last.op = "Handle" =>
        LET min == handlers[last.h].minLevel
            lvl == last.r.level
        IN  /\ last.pass <=> lvl >= min
            /\ lvl < min => last.nw = 0 /\ last.wrote = 0 /\ last.err = ""
            /\ lvl >= min =>
                  /\ last.nw = 1
                  /\ IsLine(writes[Len(writes)].data)
                  /\ last.err = "" => last.wrote = Len(writes[Len(writes)].data)
            /\ min = LevelWarn =>
                  /\ lvl \in {LevelDebug, LevelInfo} => ~last.pass
                  /\ lvl \in {LevelWarn, LevelError} => last.pass

\* C5 witness: a WARN record handled by a handler whose minimum is WARN
C5_Witness ==
    /\ last.op = "Handle"
    /\ handlers[last.h].minLevel = LevelWarn
    /\ last.r.level = LevelWarn
    /\ last.pass
    /\ last.wrote > 0

\* C6: WithGroup("") and WithAttrs of an empty list return the receiver itself.
C6_EmptyDerivationReturnsReceiver ==
    /\ last.op = "WithGroup" /\ last.name = <<>> => last.got = last.h
    /\ last.op = "WithAttrs" /\ last.attrs = <<>> => last.got = last.h

\* C6 witness: WithGroup("") called on a derived handler
C6_Witness ==
    /\ last.op = "WithGroup"
    /\ last.name = <<>>
    /\ last.h > 1

\* C7: a handler's group path is the non-empty names given to WithGroup on the
\* way from the root, in call order, and every attribute bound or logged
\* through the handler is written with its key behind that path, each segment
\* written as a key is and followed by '.'.
C7_GroupPathPrefixesKeys ==
    /\ \A i \in 1..Len(handlers) : GroupsOf(i) = PathOf(i)
    /\ last.op = "WithGroup" =>
          GroupsOf(last.got) = NonEmptyNames(NamesOf(last.h) \o <<last.name>>)
    /\ \A i \in 1..Len(handlers) :
          made[i].op = "WithAttrs" =>
             KeysPrefixed(PathOf(made[i].h), Surviving(made[i].h, made[i].attrs),
                          PreOf(i))
    /\ last.op = "Handle" /\ last.pass =>
          KeysPrefixed(PathOf(last.h), Surviving(last.h, last.r.attrs),
                       writes[Len(writes)].data)

\* C7 witness: a record with an attribute logged through a handler two groups
\* deep
C7_Witness ==
    /\ last.op = "Handle"
    /\ last.pass
    /\ Len(PathOf(last.h)) = 2
    /\ Surviving(last.h, last.r.attrs) # <<>>

\* C8: the pre-rendered block of a handler is a prefix of the block of every
\* handler derived from it, and WithGroup hands the block on byte for byte.
C8_BlockOnlyGrows ==
    \A i \in 1..Len(handlers) :
        /\ \A a \in AncestorsOf(i) : IsPrefix(PreOf(a), PreOf(i))
        /\ made[i].op = "WithGroup" => PreOf(i) = PreOf(made[i].h)

\* C8 witness: a group entered on a handler that already has bound attributes
C8_Witness ==
    \E i \in 1..Len(handlers) :
        /\ made[i].op = "WithGroup"
        /\ PreOf(made[i].h) # <<>>
        /\ PreOf(i) = PreOf(made[i].h)

\* C9: formatValue tries its cases in the order nil, LogValuer, string,
\* integer/bool, LogFormatter, nil pointer, json.Marshal: the first case that
\* fits the value decides the bytes and the methods called.  A value that is
\* both a LogValuer and a LogFormatter is rendered from its LogValue result and
\* its FormatForLog is never called.
C9_ResolverPrecedence ==
    fres # NotCalled =>
        LET valuer == fv.t # "nil" /\ IsLogValuer(fv)
            basic == fv.t \in {"nil", "string", "int", "bool"}
            formatter == ~basic /\ ~valuer /\ IsLogFormatter(fv)
        IN  /\ fv.t = "nil" => fres = FvOk(NullText)
            /\ valuer =>
                  /\ fres.calls # <<>>
                  /\ Head(fres.calls) = <<"LogValue", fv>>
                  /\ \A k \in 1..Len(fres.calls) :
                        fres.calls[k] # <<"FormatForLog", fv>>
                  /\ ~IsNilPtr(fv) =>
                        [fres EXCEPT !.calls = Tail(@)] = formatValue(Receiver(fv).lv)
            /\ fv.t = "string" => fres = FvOk(Quote(fv.s))
            /\ fv.t = "int" => fres = FvOk(AppendInt(fv.n))
            /\ fv.t = "bool" => fres = FvOk(IF fv.b THEN TrueText ELSE FalseText)
            /\ formatter =>
                  /\ fres.calls = << <<"FormatForLog", fv>> >>
                  /\ ~IsNilPtr(fv) =>
                        LET f == Receiver(fv).fm IN
                        /\ fres.err = f.err
                        /\ f.err = "" => fres.out = f.s
            /\ ~basic /\ ~valuer /\ ~formatter =>
                  IF IsNilPtr(fv) THEN fres = FvOk(NullText)
                  ELSE fres.calls = << <<"Marshal", fv>> >>

\* C9 witness: a value with both LogValue and FormatForLog has been rendered
C9_Witness ==
    /\ fres # NotCalled
    /\ fv.t = "named" /\ fv.valuer /\ fv.formatter
    /\ fres.err = ""
    /\ Head(fres.calls) = <<"LogValue", fv>>

\* C10: formatValue renders a nil pointer as null and a non-nil pointer with
\* the bytes and the error it gives for the pointee.
C10_PointerRendersAsPointee ==
    fres # NotCalled /\ fv.t = "ptr" =>
        IF fv.isnil
        THEN fres.out = NullText /\ fres.err = ""
        ELSE /\ fres.out = formatValue(fv.elem).out
             /\ fres.err = formatValue(fv.elem).err

\* the bytes Go writes raw only when escaped: the double quote, and the control
\* bytes of this model's alphabet
ControlBytes == {"\n", "^A", "DEL"}

\* the byte a \xHH escape stands for
HexByte(hi, lo) ==
    CASE hi = "0" /\ lo = "1" -> "^A"
      [] hi = "7" /\ lo = "f" -> "DEL"
      [] OTHER -> "invalid"

RECURSIVE Unescape(_)
\* the body of a Go double-quoted literal read back, escape by escape
Unescape(b) ==
    IF b = <<>> THEN <<>>
    ELSE IF Head(b) # "\\" THEN <<Head(b)>> \o Unescape(Tail(b))
    ELSE IF Len(b) < 2 THEN <<"invalid">>
    ELSE IF b[2] = "x"
         THEN IF Len(b) < 4 THEN <<"invalid">>
              ELSE <<HexByte(b[3], b[4])>> \o Unescape(SubSeq(b, 5, Len(b)))
    ELSE (CASE b[2] = "\"" -> <<"\"">>
            [] b[2] = "\\" -> <<"\\">>
            [] b[2] = "n" -> <<"\n">>
            [] OTHER -> <<"invalid">>)
         \o Unescape(SubSeq(b, 3, Len(b)))

RECURSIVE RawBytes(_)
\* the bytes of a literal's body that stand for themselves (are not part of an
\* escape)
RawBytes(b) ==
    IF b = <<>> THEN {}
    ELSE IF Head(b) # "\\" THEN {Head(b)} \cup RawBytes(Tail(b))
    ELSE IF Len(b) >= 2 /\ b[2] = "x" THEN RawBytes(SubSeq(b, 5, Len(b)))
    ELSE RawBytes(SubSeq(b, 3, Len(b)))

\* C11: for every string, formatValue returns nil and emits a double-quoted
\* literal whose body holds no raw control byte and no unescaped double quote,
\* and reading the literal back gives the string.
C11_QuotedStringRoundTrips ==
    fres # NotCalled /\ fv.t = "string" =>
        LET q == fres.out
            body == SubSeq(q, 2, Len(q) - 1)
        IN  /\ fres.err = ""
            /\ Len(q) >= 2 /\ q[1] = "\"" /\ q[Len(q)] = "\""
            /\ RawBytes(body) \cap (ControlBytes \cup {"\""}) = {}
            /\ Unescape(body) = fv.s

\* C11 witness: a string holding a backslash followed by a letter that names an
\* escape has been rendered
C11_Witness ==
    /\ fres # NotCalled
    /\ fv = StrV(<<"\\", "n">>)
    /\ fres.out = <<"\"", "\\", "\\", "n", "\"">>

\* the name an appendAttr call of SpecKey renders, and the bytes it rendered it
\* as: what stands between the leading space and "=1" or ".k=1"
NameOf(in) == IF in.groups = <<>> THEN in.key ELSE in.groups[1]

RenderedName(in, out) ==
    SubSeq(out, 2, Len(out) - (IF in.groups = <<>> THEN 2 ELSE 4))

HasByteOf(s, bytes) == \E i \in 1..Len(s) : s[i] \in bytes

\* C12 as stated: a key or group name is rendered double-quoted if it is empty
\* or holds a space, '=' or '"', and verbatim if it is non-empty and holds none
\* of the three.
C12_QuotedOnSpaceEqualsQuoteOnly ==
    fres # NotCalled /\ fv.t = "attr" =>
        LET name == NameOf(fv)
            special == name = <<>> \/ HasByteOf(name, {" ", "=", "\""})
        IN  RenderedName(fv, fres.out) = IF special THEN Quote(name) ELSE name

\* C12 amended: a key or group name is rendered double-quoted if it is empty or
\* holds a space, a control byte, '=', '"' or DEL, and verbatim otherwise.
C12_QuotedOnReservedBytes ==
    fres # NotCalled /\ fv.t = "attr" =>
        LET name == NameOf(fv)
            reserved == name = <<>>
                        \/ HasByteOf(name, {" ", "=", "\""} \cup ControlBytes)
            shape == IF fv.groups = <<>> THEN <<"=", "1">>
                     ELSE <<".", "k", "=", "1">>
        IN  /\ fres.out = <<" ">> \o RenderedName(fv, fres.out) \o shape
            /\ RenderedName(fv, fres.out) = IF reserved THEN Quote(name) ELSE name

\* C12 witness: a key holding a letter and a newline has been rendered, quoted
C12_Witness ==
    /\ fres # NotCalled /\ fv.t = "attr"
    /\ NameOf(fv) = <<"a", "\n">>
    /\ fv.groups = <<>>
    /\ fres.out = <<" ", "\"", "a", "\\", "n", "\"", "=", "1">>

(***************************************************************************)
(* Lines, field by field.                                                  *)
(***************************************************************************)
\* the line of the last Handle call that passed the filter
LastLine == writes[Len(writes)].data

LinePassed == last.op = "Handle" /\ last.pass /\ writes # <<>>

LastCallback == handlers[last.h].replaceAttr

Fails(v) == formatValue(v).err # ""

\* a value as it is written after '=': its resolved bytes, or the error marker
ValueText(v) ==
    IF Fails(v) THEN <<"\"", "!", "E", "R", "R", "O", "R", ":", formatValue(v).err, "\"">>
    ELSE formatValue(v).out

KeyText(k) == IF needsQuoting(k) THEN Quote(k) ELSE k

\* an attribute written under a group path
FieldText(path, a) ==
    <<" ">> \o Dotted(path) \o KeyText(a.key) \o <<"=">> \o ValueText(a.val)

FieldTexts(path, attrs) ==
    Flatten([k \in 1..Len(attrs) |-> FieldText(path, attrs[k])])

\* the built-in fields of a record as Handle writes them when no callback
\* touches them
TimeText(r) == <<"[", r.time, "]", " ">>
LevelText(r) == <<"[">> \o formatLevel(r.level) \o <<"]", " ">>
MsgText(r) == <<"m", "s", "g", "=">> \o Quote(r.msg)
SourceText(r) == <<" ", "s", "o", "u", "r", "c", "e", "=">> \o Quote(r.src)

RECURSIVE BoundOf(_)
\* the attributes bound on the way from the root to handler i, oldest first,
\* each with the group path it was bound under
BoundOf(i) ==
    IF made[i].op = "NewHandler" THEN <<>>
    ELSE BoundOf(made[i].h)
         \o (IF made[i].op = "WithAttrs"
             THEN [k \in 1..Len(made[i].attrs) |->
                      [path |-> PathOf(made[i].h), a |-> made[i].attrs[k]]]
             ELSE <<>>)

BoundTexts(bound) ==
    Flatten([k \in 1..Len(bound) |-> FieldText(bound[k].path, bound[k].a)])

\* C20: with no callback installed, a line is the time, the level, the message,
\* the bound attributes oldest first, the source, then the record's attributes
\* in record order, each attribute once per occurrence whatever its key.
C20_FieldOrder ==
    LinePassed /\ LastCallback = "nil" =>
        LastLine = TimeText(last.r) \o LevelText(last.r) \o MsgText(last.r)
                   \o BoundTexts(BoundOf(last.h))
                   \o SourceText(last.r)
                   \o FieldTexts(PathOf(last.h), last.r.attrs)
                   \o <<"\n">>

\* C20 witness: a record with a key used twice, logged through a handler with
\* two lists of attributes bound one after the other
C20_Witness ==
    /\ LinePassed /\ LastCallback = "nil"
    /\ Len(BoundOf(last.h)) = 4
    /\ BoundOf(last.h)[1].a # BoundOf(last.h)[3].a
    /\ Len(last.r.attrs) = 3
    /\ last.r.attrs[1].key = last.r.attrs[3].key

\* C13: when the value of the message, of a bound attribute or of a record
\* attribute fails to resolve, the field is its key, '=' and the marker
\* "!ERROR:<description>" with no byte of the value, the fields after it are
\* written as usual, and Handle returns nil.
C13_FailedValueBecomesMarker ==
    LinePassed /\ LastCallback \in {"nil", "fail"} =>
        LET attrs == last.r.attrs
            path == PathOf(last.h)
            bound == BoundOf(last.h)
            Marked(p, a) ==
                <<" ">> \o Dotted(p) \o KeyText(a.key)
                \o <<"=", "\"", "!", "E", "R", "R", "O", "R", ":",
                     formatValue(a.val).err, "\"">>
        IN  /\ last.err = ""
            /\ \A k \in 1..Len(attrs) :
                  Fails(attrs[k].val) =>
                     IsInfix(Marked(path, attrs[k])
                             \o FieldTexts(path, SubSeq(attrs, k + 1, Len(attrs)))
                             \o <<"\n">>, LastLine)
            /\ \A k \in 1..Len(bound) :
                  Fails(bound[k].a.val) =>
                     IsInfix(Marked(bound[k].path, bound[k].a)
                             \o BoundTexts(SubSeq(bound, k + 1, Len(bound)))
                             \o SourceText(last.r), LastLine)
            /\ LastCallback = "fail" =>
                  IsInfix(LevelText(last.r)
                          \o <<"m", "s", "g", "=", "\"", "!", "E", "R", "R", "O", "R",
                               ":", "format error", "\"">>
                          \o BoundTexts(bound) \o SourceText(last.r), LastLine)

\* C13 witness: a record whose first attribute fails to resolve, logged through
\* a handler with a bound attribute that fails to resolve
C13_Witness ==
    /\ LinePassed /\ LastCallback = "nil"
    /\ last.err = ""
    /\ \E k \in 1..Len(BoundOf(last.h)) : Fails(BoundOf(last.h)[k].a.val)
    /\ Len(last.r.attrs) = 2 /\ Fails(last.r.attrs[1].val)

\* the fields of a line in the order Handle writes them, each with the
\* attribute handed to the callback and the text it has when left alone
AllFields(h, r) ==
    << [a |-> Attr(TimeKey, TimeV(r.time)), text |-> TimeText(r)],
       [a |-> Attr(LevelKey, LevelV(r.level)), text |-> LevelText(r)],
       [a |-> Attr(MessageKey, StrV(r.msg)), text |-> MsgText(r)] >>
    \o [k \in 1..Len(BoundOf(h)) |->
           [a |-> BoundOf(h)[k].a,
            text |-> FieldText(BoundOf(h)[k].path, BoundOf(h)[k].a)]]
    \o << [a |-> Attr(SourceKey, StrV(r.src)), text |-> SourceText(r)] >>
    \o [k \in 1..Len(r.attrs) |->
           [a |-> r.attrs[k], text |-> FieldText(PathOf(h), r.attrs[k])]]

\* C15: with a callback that returns an empty key for one field, the line is
\* the fields the callback let through, whole (a time with its brackets) and
\* in their order, and nothing of the field it suppressed.
C15_SuppressedFieldsAbsent ==
    LinePassed /\ LastCallback \in Droppers =>
        LET kept == SelectSeq(AllFields(last.h, last.r),
                              LAMBDA f : f.a.key # DroppedKey(LastCallback))
        IN  LastLine = Flatten([k \in 1..Len(kept) |-> kept[k].text]) \o <<"\n">>

\* C15 witness: the time field suppressed, the line starts with the level
C15_Witness ==
    /\ LinePassed /\ LastCallback = "dropTime"
    /\ IsPrefix(LevelText(last.r) \o MsgText(last.r), LastLine)
    /\ BoundOf(last.h) # <<>>

\* C16: with a callback that returns another key or another value for the
\* message and the source, the line carries the message and the source under
\* the returned key with the returned value, as it does for an attribute.
C16_BuiltInsCarryReturnedKeyAndValue ==
    LinePassed /\ LastCallback \in {"rename", "revalue"} =>
        LET m == CallReplaceAttr(LastCallback, <<>>, Attr(MessageKey, StrV(last.r.msg)))
            src == CallReplaceAttr(LastCallback, <<>>, Attr(SourceKey, StrV(last.r.src)))
        IN  /\ IsInfix(<<"]", " ">> \o KeyText(m.key) \o <<"=">> \o ValueText(m.val),
                       LastLine)
            /\ IsInfix(FieldText(<<>>, src), LastLine)

\* C17 as stated: the callback gets the handler's group path with every field,
\* built-in or not.
C17_CallbackGetsPathForEveryField ==
    LinePassed /\ Len(PathOf(last.h)) > 0 =>
        /\ LastCallback = "scope" =>
              IsInfix(<<"m", "s", "g", "=">> \o Quote(Flatten(PathOf(last.h))), LastLine)
        /\ LastCallback = "dropInGroup" =>
              ~IsInfix(<<"m", "s", "g", "=">>, LastLine)

\* C17 amended: the callback gets nil groups with the time, level, message and
\* source fields, the handler's group path with a record's attributes, and the
\* path a bound attribute was bound under with that attribute.
C17_CallbackGetsPathForAttributesOnly ==
    LinePassed =>
        LET path == PathOf(last.h)
            bound == BoundOf(last.h)
            attrs == last.r.attrs
            Scoped(p, a) == FieldText(p, Attr(a.key, StrV(Flatten(p))))
        IN  /\ LastCallback = "scope" =>
                 LastLine = TimeText(last.r) \o LevelText(last.r)
                            \o <<"m", "s", "g", "=", "\"", "\"">>
                            \o Flatten([k \in 1..Len(bound) |->
                                           Scoped(bound[k].path, bound[k].a)])
                            \o <<" ", "s", "o", "u", "r", "c", "e", "=", "\"", "\"">>
                            \o Flatten([k \in 1..Len(attrs) |-> Scoped(path, attrs[k])])
                            \o <<"\n">>
            /\ LastCallback = "dropInGroup" =>
                 LastLine = TimeText(last.r) \o LevelText(last.r) \o MsgText(last.r)
                            \o BoundTexts(SelectSeq(bound, LAMBDA b : b.path = <<>>))
                            \o SourceText(last.r)
                            \o (IF path = <<>> THEN FieldTexts(path, attrs) ELSE <<>>)
                            \o <<"\n">>

\* C17 witness: a record with attributes logged through a handler inside a
\* group, with the callback that reports the groups it is called with
C17_Witness ==
    /\ LinePassed /\ LastCallback = "scope"
    /\ Len(PathOf(last.h)) > 0
    /\ BoundOf(last.h) # <<>>
    /\ last.r.attrs # <<>>

C18_DefaultEncoderMatchesLayout ==
    fres # NotCalled /\ fv.t = "clock" =>
        fres.out = AppendFormatDefaultLayout(fv)

\* the level token without the colour codes wrapped around it
LevelToken(in, out) == IF in.useColors THEN SubSeq(out, 2, Len(out) - 1) ELSE out

\* C19: for every level, standard or custom, the level token is five characters
\* wide before colour wrapping, the level's name right-justified with spaces.
C19_LevelTokenFiveWide ==
    fres # NotCalled /\ fv.t = "lvl" =>
        LET token == LevelToken(fv, fres.out)
            name == LevelString(fv.n)
        IN  /\ Len(token) = 5
            /\ \E pad \in 0..5 :
                  token = [i \in 1..pad |-> " "] \o SubSeq(name, 1, 5 - pad)

(***************************************************************************)
(* The buffer pool.                                                        *)
(***************************************************************************)
\* C21: whatever New, Write and Free calls callers make on buffers they hold
\* (each buffer written and freed only between the New that returned it and its
\* Free), every buffer the pool holds has length 0 and capacity at most 16 KiB,
\* New returns a buffer of length 0 and capacity at most 16 KiB, and Free leaves
\* the pool as it was when the buffer's capacity exceeds 16 KiB and adds the
\* buffer, emptied, otherwise.
C21_PoolHoldsSmallEmptyBuffers ==
    /\ [](/\ \A x \in BagToSet(bp.pool) : x.len = 0 /\ x.cap <= 16 * 1024
          /\ bp.op = "New" => bp.b.len = 0 /\ bp.b.cap <= 16 * 1024)
    /\ [][bp'.op = "Free" =>
             bp'.pool = IF bp'.b.cap > 16 * 1024 THEN bp.pool
                        ELSE bp.pool (+) SetToBag({[len |-> 0, cap |-> bp'.b.cap]})]_vars

\* C21 witness: a buffer grown past 16 KiB has just been freed and is not in the
\* pool, which holds a buffer of exactly 16 KiB freed earlier
C21_Witness ==
    /\ bp.op = "Free"
    /\ bp.b.len > 16 * 1024 /\ bp.b.cap > 16 * 1024
    /\ BagToSet(bp.pool) = {[len |-> 0, cap |-> 16 * 1024]}

\* C22: an attribute value that is a Go error is rendered as a double-quoted
\* string holding the error's message, and formatValue returns nil.
C22_ErrorRendersAsQuotedMessage ==
    fres # NotCalled /\ IsError(fv) =>
        /\ fres.err = ""
        /\ fres.out = Quote(fv.elem.error)

\* C23: when the value the callback returned for the source fails to resolve,
\* the source field is its key, '=' and the marker "!ERROR:<description>".
C23_FailedSourceBecomesMarker ==
    LinePassed /\ LastCallback = "failSource" =>
        IsInfix(<<" ", "s", "o", "u", "r", "c", "e", "=", "\"", "!", "E", "R", "R",
                  "O", "R", ":", "format error", "\"">>, LastLine)

RECURSIVE ChainLength(_)
\* the number of LogValue calls it takes to get from v to a value that is not a
\* value-provider
ChainLength(v) ==
    IF v.t # "nil" /\ IsLogValuer(v) /\ ~IsNilPtr(v)
    THEN 1 + ChainLength(Receiver(v).lv)
    ELSE 0

\* C24: a formatValue call on a value with a finite chain of value-providers
\* returns, after one nested call per provider of the chain, with the rendering
\* of the chain's last value; a call on a value-provider that yields itself
\* never returns and nests deeper than any count.
C24_FollowsWholeChain ==
    /\ (fv \in Values) ~>
          /\ rv.pc = "done"
          /\ fres.out = formatValue(fv).out
          /\ fres.err = formatValue(fv).err
          /\ rv.depth = ChainLength(fv) + 1
    /\ [](fv \in Values /\ rv.pc = "running" => rv.depth <= ChainLength(fv) + 1)
    /\ [](fv \in SelfProviders => rv.pc # "done" /\ fres = NotCalled)
    /\ (fv \in SelfProviders) ~> (rv.depth = MaxDepth)

\* C24 witness: a value-provider yielding a value-provider yielding a string
\* has been rendered as that string, three calls deep
C24_Witness ==
    /\ rv.pc = "done"
    /\ ChainLength(fv) = 2
    /\ rv.depth = 3
    /\ rv.cur.t = "string"
    /\ fres.err = "" /\ fres.out = Quote(rv.cur.s)

(***************************************************************************)
(* Lines of handlers without source capture.                               *)
(***************************************************************************)
\* the line for record r when no callback touches anything: time, level,
\* message, the bound attributes, the record's attributes
PlainLine(r, bound, path, attrs) ==
    TimeText(r) \o LevelText(r) \o MsgText(r) \o BoundTexts(bound)
    \o FieldTexts(path, attrs) \o <<"\n">>

HasKey(a) == a.key # <<>>

\* C25 as stated: with a callback that returns every attribute unchanged, the
\* line is byte for byte the line written with no callback, attributes with the
\* empty key included.
C25_IdentityCallbackChangesNothing ==
    LinePassed /\ LastCallback = "same" =>
        LastLine = PlainLine(last.r, BoundOf(last.h), PathOf(last.h), last.r.attrs)

\* C25 amended: with no callback every attribute is written, one with the empty
\* key as ""=value; with a callback that returns every attribute unchanged the
\* line is the same except that the attributes with the empty key, bound or of
\* the record, are left out.
C25_IdentityCallbackDropsEmptyKeys ==
    LinePassed =>
        /\ LastCallback = "nil" =>
              LastLine = PlainLine(last.r, BoundOf(last.h), PathOf(last.h),
                                   last.r.attrs)
        /\ LastCallback = "same" =>
              LastLine = PlainLine(last.r,
                                   SelectSeq(BoundOf(last.h), LAMBDA b : HasKey(b.a)),
                                   PathOf(last.h),
                                   SelectSeq(last.r.attrs, HasKey))

\* C25 witness: a record with an attribute of empty key, logged inside a group
\* through a handler with a bound attribute of empty key, under the callback
\* that returns every attribute unchanged
C25_Witness ==
    /\ LinePassed /\ LastCallback = "same"
    /\ PathOf(last.h) # <<>>
    /\ \E k \in 1..Len(last.r.attrs) : ~HasKey(last.r.attrs[k])
    /\ \E k \in 1..Len(BoundOf(last.h)) : ~HasKey(BoundOf(last.h)[k].a)

\* the calls of the rewrite callback among the calls a Handle or WithAttrs call
\* made
CallbackCalls(trace) == SelectSeq(trace, LAMBDA e : e.op = "replaceAttr")

\* C26: without source capture, the line written for a record with attributes B
\* through h.WithAttrs(A) is the line Handle writes on h for the same record
\* with attributes A followed by B; WithAttrs calls the callback once for each
\* attribute it binds, in order, with the receiver's groups, and Handle calls it
\* for time, level, message and the record's attributes and for nothing else.
C26_PreRenderedEqualsFresh ==
    /\ LinePassed /\ made[last.h].op = "WithAttrs" /\ ~handlers[last.h].addSource =>
          LET parent == made[last.h].h IN
          LastLine = RenderLine(handlers[parent], GroupsOf(parent), PreOf(parent),
                                [last.r EXCEPT !.attrs = made[last.h].attrs \o @])
    /\ last.op = "WithAttrs" /\ LastCallback # "nil" =>
          CallbackCalls(last.trace) =
              [k \in 1..Len(last.attrs) |->
                  [op |-> "replaceAttr", groups |-> PathOf(last.h), a |-> last.attrs[k]]]
    /\ LinePassed /\ LastCallback # "nil" /\ ~handlers[last.h].addSource =>
          CallbackCalls(last.trace) =
              << [op |-> "replaceAttr", groups |-> <<>>,
                  a |-> Attr(TimeKey, TimeV(last.r.time))],
                 [op |-> "replaceAttr", groups |-> <<>>,
                  a |-> Attr(LevelKey, LevelV(last.r.level))],
                 [op |-> "replaceAttr", groups |-> <<>>,
                  a |-> Attr(MessageKey, StrV(last.r.msg))] >>
              \o [k \in 1..Len(last.r.attrs) |->
                     [op |-> "replaceAttr", groups |-> PathOf(last.h),
                      a |-> last.r.attrs[k]]]

\* C26 witness: a record with attributes logged through a handler made by
\* WithAttrs inside a group, under the callback that renames every key
C26_Witness ==
    /\ LinePassed /\ LastCallback = "rename"
    /\ made[last.h].op = "WithAttrs"
    /\ PathOf(last.h) # <<>>
    /\ Len(last.r.attrs) = 2

\* what appendAttr wrote between the leading space and "=1"
KeyPrefix(out) == SubSeq(out, 2, Len(out) - 2)

HasDot(name) == \E i \in 1..Len(name) : name[i] = "."

\* every name of the attribute that holds a '.' is written quoted
DotsQuoted(in) ==
    \A i \in 1..Len(Segments(in)) :
        HasDot(Segments(in)[i]) => needsQuoting(Segments(in)[i])

RECURSIVE SplitOutsideQuotes(_, _, _)
\* a rendered prefix cut at the dots that stand outside double quotes; cur is
\* the segment being read and inq tells whether a quote is open
SplitOutsideQuotes(text, cur, inq) ==
    IF text = <<>> THEN <<cur>>
    ELSE IF inq /\ Head(text) = "\\" /\ Len(text) >= 2
    THEN SplitOutsideQuotes(Tail(Tail(text)), cur \o <<text[1], text[2]>>, inq)
    ELSE IF Head(text) = "\""
    THEN SplitOutsideQuotes(Tail(text), Append(cur, Head(text)), ~inq)
    ELSE IF Head(text) = "." /\ ~inq
    THEN <<cur>> \o SplitOutsideQuotes(Tail(text), <<>>, FALSE)
    ELSE SplitOutsideQuotes(Tail(text), Append(cur, Head(text)), inq)

\* the rendered prefix of an attribute splits back into its rendered names, and
\* each rendered name is the rendering of one name only
SplitsBack(in, out) ==
    /\ SplitOutsideQuotes(KeyPrefix(out), <<>>, FALSE) =
           [i \in 1..Len(Segments(in)) |-> renderKey(Segments(in)[i])]
    /\ \A i \in 1..Len(Segments(in)) : \A n \in PathNames :
           renderKey(n) = renderKey(Segments(in)[i]) => n = Segments(in)[i]

\* C27 as stated: two different (group path, key) pairs never render to the
\* same text before the '='.
C27_PrefixIdentifiesOrigin ==
    fv.t = "pair" /\ fres # NotCalled /\ Len(fres.out) = 2 /\ fv.a # fv.b =>
        KeyPrefix(fres.out[1]) # KeyPrefix(fres.out[2])

\* C27 amended: two different (group path, key) pairs render to different
\* prefixes provided every group name and key holding a '.' is one that is
\* written quoted; the prefix of such a pair splits back, at the dots outside
\* quotes, into its rendered names, each of which stands for one name only.
C27_PrefixIdentifiesOriginWhenDotsQuoted ==
    fv.t = "pair" /\ fres # NotCalled =>
        /\ DotsQuoted(fv.a) => SplitsBack(fv.a, fres.out[1])
        /\ Len(fres.out) = 2 /\ DotsQuoted(fv.b) => SplitsBack(fv.b, fres.out[2])
        /\ Len(fres.out) = 2 /\ fv.a # fv.b /\ DotsQuoted(fv.a) /\ DotsQuoted(fv.b) =>
               KeyPrefix(fres.out[1]) # KeyPrefix(fres.out[2])

\* C27 witness: two different pairs spelling the same dotted name have been
\* rendered, the dot of one inside a quoted name and the dot of the other
\* between a group and the key
C27_Witness ==
    /\ fv.t = "pair" /\ fres # NotCalled /\ Len(fres.out) = 2
    /\ fv.a # fv.b
    /\ DotsQuoted(fv.a) /\ DotsQuoted(fv.b)
    /\ fv.a.groups # <<>> /\ fv.b.groups = <<>> /\ HasDot(fv.b.key)
    /\ KeyPrefix(fres.out[1]) # KeyPrefix(fres.out[2])

\* C28 as stated: every payload written to the sink holds exactly one newline
\* byte, its last byte, whatever the values and custom-formatter outputs of the
\* record are.
C28_PayloadIsOneLine ==
    LinePassed => IsLine(LastLine)

\* the line of a record whose level field alone was rewritten to level l, written
\* under a callback (which drops the attributes with the empty key)
LineWithLevel(l) ==
    TimeText(last.r) \o <<"[">> \o formatLevel(l) \o <<"]", " ">> \o MsgText(last.r)
    \o BoundTexts(SelectSeq(BoundOf(last.h), LAMBDA b : HasKey(b.a)))
    \o FieldTexts(PathOf(last.h), SelectSeq(last.r.attrs, HasKey))
    \o <<"\n">>

\* C29: Handle decides the level filter first and on the record's own level: a
\* filtered call makes no callback call, resolves no value, takes no buffer and
\* no mutex and writes nothing, and under a callback that rewrites the level
\* attribute the record is written exactly when its own level passes, with only
\* the printed level changed.
C29_FilterFirstOnOriginalLevel ==
    /\ [](last.op = "Handle" =>
            /\ last.pass <=> last.r.level >= handlers[last.h].minLevel
            /\ ~last.pass => last.trace = <<>> /\ last.nw = 0 /\ last.wrote = 0
            /\ last.pass /\ LastCallback = "raise" => LastLine = LineWithLevel(LevelError)
            /\ last.pass /\ LastCallback = "lower" => LastLine = LineWithLevel(LevelDebug))
    /\ [][last'.op = "Handle" /\ ~last'.pass =>
             UNCHANGED <<bp, mu, writes, sink, heap, handlers, made, stack>>]_vars

\* C29 witness: under the callback that lowers the level attribute to DEBUG, a
\* record at INFO has been written through a handler whose minimum is INFO, and
\* its line shows DEBUG
C29_Witness ==
    /\ LinePassed /\ LastCallback = "lower"
    /\ last.r.level = LevelInfo
    /\ handlers[last.h].minLevel = LevelInfo
    /\ LastLine = LineWithLevel(LevelDebug)
    /\ LastLine # LineWithLevel(LevelInfo)

\* a record below the minimum level has been filtered under the callback that
\* raises the level attribute to ERROR
C29_FilteredUnderRaise ==
    /\ last.op = "Handle" /\ ~last.pass /\ LastCallback = "raise"
    /\ last.r.level = LevelDebug

\* C30 as stated: a Handle call leaves the group list and the pre-rendered
\* block of every handler as they were, even under a callback that writes to
\* the group path it is handed.
C30_HandleLeavesGroupsAlone ==
    [][last'.op = "Handle" =>
          \A i \in 1..Len(handlers) :
              /\ Deref(heap', handlers'[i].groups) = GroupsOf(i)
              /\ Deref(heap', handlers'[i].pre) = PreOf(i)]_vars

====
